---------------------------- MODULE Spec2Model ----------------------------
(***************************************************************************)
(* Bundle store, HTTP client and bundle builder of the supplier cyber-risk *)
(* dashboard (json_handler.py, api.py, utils.py, utils/normalization.py).  *)
(*                                                                         *)
(* Five specifications share this module:                                  *)
(*   SpecStore  the cache directory under concurrent writers and a reader  *)
(*   SpecFetch  one call of _get of either HTTP client module              *)
(*   SpecBuild  build_company_bundle and rebuild_company_bundle_for_id     *)
(*   SpecRebuild  build_all_company_bundles, rebuild_all_company_jsons,    *)
(*              ensure_missing_bundles, refresh_stale_bundles and two      *)
(*              calls of rebuild_company_bundle_for_id                     *)
(*   SpecNorm   norm_ref / _norm_ref applied to control references         *)
(***************************************************************************)
EXTENDS Integers, Sequences, FiniteSets, TLC

(***************************************************************************)
(* Python values.  Every value is a record tagged by its type in field t,  *)
(* its content in a field named after the type, so that values of          *)
(* different Python types are comparable (and unequal).                    *)
(***************************************************************************)
None == [t |-> "none"]

IntV(n) == [t |-> "int", iv |-> n]

StrV(s) == [t |-> "str", sv |-> s]

FloatV(n) == [t |-> "float", fv |-> n]

DictV(f) == [t |-> "dict", dv |-> f]

ListV(s) == [t |-> "list", lv |-> s]

\* an object json cannot serialise (anything that is not a JSON type)
Obj == [t |-> "object"]

EmptyDict == DictV(<< >>)

\* bool(x)
truthy(x) ==
    CASE x.t = "none" -> FALSE
      [] x.t = "int" -> x.iv # 0
      [] x.t = "float" -> x.fv # 0
      [] x.t = "str" -> x.sv # ""
      [] x.t = "dict" -> DOMAIN x.dv # {}
      [] x.t = "list" -> Len(x.lv) > 0
      [] OTHER -> TRUE

\* a or b
or(a, b) == IF truthy(a) THEN a ELSE b

\* d.get(k) of a dict value
get(d, k) == IF k \in DOMAIN d.dv THEN d.dv[k] ELSE None

Digits == <<"0", "1", "2", "3", "4", "5", "6", "7", "8", "9">>

\* str(x) for the values used as identifiers
str(x) ==
    CASE x.t = "int" -> Digits[x.iv + 1]
      [] x.t = "str" -> x.sv
      [] OTHER -> "None"

\* float(x): the number, or the exception float raises
float(x) ==
    CASE x.t = "int" -> [exc |-> "none", val |-> FloatV(x.iv)]
      [] x.t = "float" -> [exc |-> "none", val |-> x]
      [] x.t = "str" ->
           IF \E n \in 0..9 : Digits[n + 1] = x.sv
           THEN [exc |-> "none", val |-> FloatV(CHOOSE n \in 0..9 : Digits[n + 1] = x.sv)]
           ELSE [exc |-> "ValueError", val |-> None]
      [] OTHER -> [exc |-> "TypeError", val |-> None]

(***************************************************************************)
(* Bounds of the store model.                                              *)
(***************************************************************************)
NumCompanies == 2

CompanyIds == {IntV(c) : c \in 1..NumCompanies}

\* the two processes whose rebuilds race on the cache directory
Writers == {1, 2}

\* one inode per file the directory starts with, one per temp file created
Inodes == 1..(NumCompanies + Cardinality(Writers))

(***************************************************************************)
(* File names of the cache directory.                                      *)
(***************************************************************************)
\* a path that does not depend on the company
shared_bundle_path(company_id) ==
    [prefix |-> "", stem |-> "1", suffix |-> "_data.json"]

\* company_bundle_path: f"{company_id}_data.json" under DATA_ROOT
company_bundle_path(company_id) ==
    [prefix |-> "", stem |-> str(company_id), suffix |-> "_data.json"]

\* a fixed temp name, as a writer without mkstemp would use
fixed_tmp_name(n) == [prefix |-> ".tmp_", stem |-> "0", suffix |-> ""]

\* tempfile.mkstemp(prefix=".tmp_", dir=d): a name no other file has
mkstemp(n) == [prefix |-> ".tmp_", stem |-> Digits[n + 1], suffix |-> ""]

BundleNames == {company_bundle_path(c) : c \in CompanyIds}

TmpNames == {mkstemp(n) : n \in {0} \cup Inodes}

Names == BundleNames \cup TmpNames

NoFile == 0

(***************************************************************************)
(* JSON documents.  A document is the sequence of chunks json.dump writes: *)
(* one chunk per key, then the closing brace.                              *)
(***************************************************************************)
CloseBrace == [k |-> "}", v |-> None]

\* the keys of a bundle, in the order build_company_bundle inserts them
KeyOrder ==
    <<"schema_version", "generated_at", "company_id", "company",
      "risk_grade", "categories", "domains">>

RECURSIVE member_chunks(_, _)
member_chunks(d, i) ==
    IF i > Len(KeyOrder) THEN << >>
    ELSE (IF KeyOrder[i] \in DOMAIN d.dv
            THEN << [k |-> KeyOrder[i], v |-> d.dv[KeyOrder[i]]] >>
            ELSE << >>) \o member_chunks(d, i + 1)

\* the chunks json.dump(data, f) writes when nothing fails
json_dump(d) == member_chunks(d, 1) \o <<CloseBrace>>

RECURSIVE serialisable(_)
serialisable(x) ==
    CASE x.t = "object" -> FALSE
      [] x.t = "dict" -> \A k \in DOMAIN x.dv : serialisable(x.dv[k])
      [] x.t = "list" -> \A i \in 1..Len(x.lv) : serialisable(x.lv[i])
      [] OTHER -> TRUE

RECURSIVE members(_, _)
members(doc, i) ==
    IF i < 1 THEN << >>
    ELSE (doc[i].k :> doc[i].v) @@ members(doc, i - 1)

\* json.load(f): the parsed value, or a JSONDecodeError
json_load(doc) ==
    IF /\ Len(doc) >= 1
       /\ doc[Len(doc)] = CloseBrace
       /\ \A i \in 1..(Len(doc) - 1) : doc[i] # CloseBrace
    THEN [exc |-> "none", val |-> DictV(members(doc, Len(doc) - 1))]
    ELSE [exc |-> "JSONDecodeError", val |-> None]


(***************************************************************************)
(* State.                                                                  *)
(*   files    the cache directory: file name -> inode, NoFile when absent  *)
(*   content  inode -> the chunks stored in it                             *)
(*   wr       each writer's position in _atomic_write_json                 *)
(*   rd       the reader's position in load_company_bundle or              *)
(*            list_company_bundles                                         *)
(*   given    the bundles handed to write_company_bundle so far, with the  *)
(*            bundles the directory held at start                          *)
(*   http     the call of _get in progress: module, path, position, the    *)
(*            requests sent so far with what each came to, and the outcome *)
(*   mtime    what os.path.getmtime reads of each file                     *)
(*   ref      the control reference handed to norm_ref / _norm_ref         *)
(*   normed   the results of normalizing it, once and again, or the        *)
(*            function code found for it                                   *)
(*   rating_row  the row handed to _rating                                 *)
(*   rated    the ratings _rating returned for it                          *)
(*   bld      the call of build_company_bundle or of a rebuild in          *)
(*            progress: its arguments, its position and its local          *)
(*            variables                                                    *)
(*   log      the upstream fetches made so far, in order                   *)
(*   clock    the time _now_iso and time.time read                         *)
(***************************************************************************)
VARIABLES files, content, mtime, wr, rd, given, http, ref, normed, rating_row, rated, bld, log, clock

storeVars == <<files, content, mtime, wr, rd, given>>

fetchVars == <<http>>

normVars == <<ref, normed, rating_row, rated>>

buildVars == <<bld, log, clock>>

vars ==
    <<files, content, mtime, wr, rd, given, http, ref, normed, rating_row, rated, bld, log,
      clock>>

NoName == [prefix |-> "", stem |-> "", suffix |-> ""]

StoreKeys == {"generated_at", "categories"}

\* the bundles writer w calls write_company_bundle with: generated_at is
\* fresh for every build, so no two calls are given the same bundle; the
\* other key is absent, or holds a value json cannot serialise
StoreBundles(w) ==
    {DictV([generated_at |-> IntV(w)]),
     DictV([generated_at |-> IntV(w), categories |-> Obj])}

\* a bundle stored by an earlier run
OldBundle == DictV([generated_at |-> IntV(0), categories |-> IntV(0)])

\* a file damaged outside the program: a document cut short
CorruptDoc == <<[k |-> "generated_at", v |-> IntV(0)]>>

IdleWriter ==
    [pc |-> "idle", cid |-> None, data |-> EmptyDict, tmp |-> NoName,
     fd |-> NoFile, pos |-> 0, exc |-> "none"]

IdleReader ==
    [pc |-> "idle", op |-> "none", cid |-> None, fd |-> NoFile,
     exc |-> "none", val |-> None]

InoOf(c) == c.iv

IdleHttp ==
    [pc |-> "idle", client |-> "api", path |-> << >>, url |-> << >>,
     reqs |-> << >>, exc |-> "none", val |-> None]

\* the locals of the builder and of the rebuild that calls it; `before` is
\* the cache directory as the rebuild found it, `first` the bundle an earlier
\* call of the same rebuild stored, `mark` the length of the log at the call
IdleBuild ==
    [pc |-> "idle", op |-> "none", arg |-> None, cs |-> << >>,
     all_domains |-> << >>, company |-> None, cid |-> None,
     risk_grade |-> None, categories |-> << >>, doms |-> << >>,
     di |-> 0, ci |-> 0, dscore |-> None, per_cat |-> << >>,
     details |-> << >>, exc |-> "none", ret |-> None,
     run |-> 0, idx |-> 0, written |-> << >>, existing_ids |-> {},
     todo |-> {}, cutoff |-> 0, nw |-> 0, wid |-> None,
     before |-> [files |-> [n \in Names |-> NoFile],
                 content |-> [i \in Inodes |-> << >>],
                 mtime |-> [i \in Inodes |-> 0]],
     first |-> None, mark |-> 0]

InitStore ==
    /\ \E present \in SUBSET CompanyIds :
       \E corrupt \in SUBSET present :
          /\ files = [n \in Names |->
                        IF \E c \in present : n = company_bundle_path(c)
                        THEN InoOf(CHOOSE c \in present : n = company_bundle_path(c))
                        ELSE NoFile]
          /\ content = [i \in Inodes |->
                          IF IntV(i) \in corrupt THEN CorruptDoc
                          ELSE IF IntV(i) \in present THEN json_dump(OldBundle)
                          ELSE << >>]
          /\ given = IF present \ corrupt = {} THEN {} ELSE {OldBundle}
    /\ mtime = [i \in Inodes |-> 0]
    /\ wr = [w \in Writers |-> IdleWriter]
    /\ rd = IdleReader
    /\ http = IdleHttp
    /\ ref = << >>
    /\ normed = << >>
    /\ rating_row = EmptyDict
    /\ rated = << >>
    /\ bld = IdleBuild
    /\ log = << >>
    /\ clock = 1


(***************************************************************************)
(* _atomic_write_json(path, data), one step at a time.                     *)
(***************************************************************************)
\* write_company_bundle(company_id, bundle) up to and including mkstemp:
\* the temp file exists, is empty and is open for writing
write_call(w, company_id, bundle) ==
    /\ wr[w].pc = "idle"
    /\ LET ino == NumCompanies + w
           tmp == mkstemp(ino)
       IN /\ files' = [files EXCEPT ![tmp] = ino]
          /\ content' = [content EXCEPT ![ino] = << >>]
          /\ mtime' = [mtime EXCEPT ![ino] = clock]
          /\ wr' = [wr EXCEPT ![w] =
                      [pc |-> "dump", cid |-> company_id, data |-> bundle,
                       tmp |-> tmp, fd |-> ino, pos |-> 0, exc |-> "none"]]
    /\ given' = given \cup {bundle}

\* a process calls write_company_bundle
WriteCall(w, company_id, bundle) ==
    /\ write_call(w, company_id, bundle)
    /\ UNCHANGED <<rd, http, normVars, bld, log, clock>>

\* json.dump writes its next chunk to the temp file, or raises TypeError at a
\* value it cannot serialise; leaving the with block closes the file
DumpChunk(w) ==
    /\ wr[w].pc = "dump"
    /\ LET doc == json_dump(wr[w].data)
           chunk == doc[wr[w].pos + 1]
       IN IF serialisable(chunk.v)
          THEN /\ content' = [content EXCEPT ![wr[w].fd] = Append(@, chunk)]
               /\ mtime' = [mtime EXCEPT ![wr[w].fd] = clock]
               /\ wr' = [wr EXCEPT ![w].pos = @ + 1,
                                   ![w].pc = IF wr[w].pos + 1 = Len(doc)
                                             THEN "replace" ELSE "dump"]
          ELSE /\ wr' = [wr EXCEPT ![w].pc = "finally", ![w].exc = "TypeError"]
               /\ UNCHANGED <<content, mtime>>
    /\ UNCHANGED <<files, rd, given, http, normVars, bld, log, clock>>

\* os.replace(tmp, path) succeeds: one atomic rename onto the target
Replace(w) ==
    /\ wr[w].pc = "replace"
    /\ files[wr[w].tmp] # NoFile
    /\ files' = [files EXCEPT ![company_bundle_path(wr[w].cid)] = files[wr[w].tmp],
                              ![wr[w].tmp] = NoFile]
    /\ wr' = [wr EXCEPT ![w].pc = "finally"]
    /\ UNCHANGED <<content, mtime, rd, given, http, normVars, bld, log, clock>>

\* os.replace(tmp, path) raises OSError and renames nothing
ReplaceFail(w) ==
    /\ wr[w].pc = "replace"
    /\ wr' = [wr EXCEPT ![w].pc = "finally", ![w].exc = "OSError"]
    /\ UNCHANGED <<files, content, mtime, rd, given, http, normVars, bld, log, clock>>

\* the finally clause without its os.remove
finally_keep_tmp(fs, tmp) == fs

\* the finally clause: if os.path.exists(tmp): os.remove(tmp)
finally_remove_tmp(fs, tmp) ==
    IF fs[tmp] # NoFile THEN [fs EXCEPT ![tmp] = NoFile] ELSE fs

\* the finally clause runs, then the call returns or re-raises
Finally(w) ==
    /\ wr[w].pc = "finally"
    /\ files' = finally_remove_tmp(files, wr[w].tmp)
    /\ wr' = [wr EXCEPT ![w].pc = IF wr[w].exc = "none" THEN "returned" ELSE "raised"]
    /\ UNCHANGED <<content, mtime, rd, given, http, normVars, bld, log, clock>>

\* the writing process is killed in the middle of a write: nothing of the call
\* runs any more, not even its finally clause
Crash(w) ==
    /\ wr[w].pc \in {"dump", "replace", "finally"}
    /\ wr' = [wr EXCEPT ![w].pc = "crashed"]
    /\ UNCHANGED <<files, content, mtime, rd, given, http, normVars, bld, log, clock>>

(***************************************************************************)
(* load_company_bundle and list_company_bundles.                           *)
(***************************************************************************)
\* a reader that catches FileNotFoundError alone
except_file_not_found(r) ==
    IF r.exc = "FileNotFoundError" THEN [exc |-> "none", val |-> EmptyDict] ELSE r

\* try: return json.load(f)  except FileNotFoundError: return {}
\* except Exception: return {}
load_except(r) ==
    IF r.exc = "none" THEN r ELSE [exc |-> "none", val |-> EmptyDict]

\* open(path, "r") in load_company_bundle
ReadOpen(company_id) ==
    /\ rd.pc \in {"idle", "done"}
    /\ LET ino == files[company_bundle_path(company_id)] IN
         IF ino = NoFile
         THEN LET r == load_except([exc |-> "FileNotFoundError", val |-> None]) IN
                rd' = [pc |-> "done", op |-> "load", cid |-> company_id,
                       fd |-> NoFile, exc |-> r.exc, val |-> r.val]
         ELSE rd' = [pc |-> "opened", op |-> "load", cid |-> company_id,
                     fd |-> ino, exc |-> "none", val |-> None]
    /\ UNCHANGED <<files, content, mtime, wr, given, http, normVars, bld, log, clock>>

\* json.load(f) on the open file, and the except clauses around it
ReadLoad ==
    /\ rd.pc = "opened"
    /\ LET r == load_except(json_load(content[rd.fd])) IN
         rd' = [rd EXCEPT !.pc = "done", !.exc = r.exc, !.val = r.val]
    /\ UNCHANGED <<files, content, mtime, wr, given, http, normVars, bld, log, clock>>

\* sorted(os.listdir(DATA_ROOT)) restricted to names ending in _data.json:
\* for the one-digit ids of the model the sorted order is the order of the ids
RECURSIVE listed_names(_, _)
listed_names(fs, i) ==
    IF i > NumCompanies THEN << >>
    ELSE LET name == company_bundle_path(IntV(i)) IN
           (IF fs[name] # NoFile /\ name.suffix = "_data.json"
              THEN <<name>> ELSE << >>) \o listed_names(fs, i + 1)

\* try: out.append(json.load(f))  except Exception: pass
list_entry(r) ==
    IF r.exc = "none" THEN [exc |-> "none", val |-> <<r.val>>]
    ELSE [exc |-> "none", val |-> << >>]

RECURSIVE list_loop(_, _, _, _)
list_loop(names, fs, cont, i) ==
    IF i > Len(names) THEN [exc |-> "none", val |-> << >>]
    ELSE LET e == list_entry(json_load(cont[fs[names[i]]]))
             rest == list_loop(names, fs, cont, i + 1)
         IN IF e.exc # "none" THEN e
            ELSE IF rest.exc # "none" THEN rest
            ELSE [exc |-> "none", val |-> e.val \o rest.val]

\* list_company_bundles()
ListAll ==
    /\ rd.pc \in {"idle", "done"}
    /\ LET r == list_loop(listed_names(files, 1), files, content, 1) IN
         rd' = [pc |-> "done", op |-> "list", cid |-> None, fd |-> NoFile,
                exc |-> r.exc,
                val |-> IF r.exc = "none" THEN ListV(r.val) ELSE None]
    /\ UNCHANGED <<files, content, mtime, wr, given, http, normVars, bld, log, clock>>

NextStore ==
    \/ \E w \in Writers : \E c \in CompanyIds, b \in StoreBundles(w) : WriteCall(w, c, b)
    \/ \E w \in Writers : DumpChunk(w)
    \/ \E w \in Writers : Replace(w)
    \/ \E w \in Writers : ReplaceFail(w)
    \/ \E w \in Writers : Finally(w)
    \/ \E w \in Writers : Crash(w)
    \/ \E c \in CompanyIds : ReadOpen(c)
    \/ ReadLoad
    \/ ListAll



SpecStore == InitStore /\ [][NextStore]_vars

(***************************************************************************)
(* Claims about the store.                                                 *)
(***************************************************************************)
\* what the directory holds for a company: whether the file exists, and the
\* chunks in it
stored_file(c) ==
    LET ino == files[company_bundle_path(c)] IN
      IF ino = NoFile THEN [present |-> FALSE, doc |-> << >>]
      ELSE [present |-> TRUE, doc |-> content[ino]]

\* what load_company_bundle(c) returns when it runs without interruption
read_now(c) ==
    LET ino == files[company_bundle_path(c)] IN
      IF ino = NoFile THEN load_except([exc |-> "FileNotFoundError", val |-> None])
      ELSE load_except(json_load(content[ino]))

\* the step of writer w is its successful rename
Renames(w) ==
    /\ wr[w].pc = "replace"
    /\ wr'[w].pc = "finally"
    /\ wr'[w].exc = "none"

\* C1: under every interleaving of writers' steps (crashes included) with
\* reads, a finished read returns the empty bundle or a bundle some write was
\* given, whole; and a stored file changes only by a writer's rename, which
\* leaves there the complete document of that writer's bundle (so the file is
\* the bundle of whichever writer renamed last).
C1_ReadsSeeWholeBundles ==
    /\ [](rd.pc = "done" /\ rd.op = "load"
            => rd.exc = "none" /\ rd.val \in {EmptyDict} \cup given)
    /\ [][\A c \in CompanyIds :
            stored_file(c)' # stored_file(c)
              => \E w \in Writers :
                   /\ Renames(w)
                   /\ wr[w].cid = c
                   /\ stored_file(c)' = [present |-> TRUE, doc |-> json_dump(wr[w].data)]
         ]_storeVars

\* a read returned the bundle one writer stored in this run while the other
\* writer is in the middle of writing the same company's bundle
C1_Witness ==
    \E w1, w2 \in Writers :
       /\ w1 # w2
       /\ rd.pc = "done" /\ rd.op = "load"
       /\ rd.val = wr[w1].data
       /\ wr[w1].cid = rd.cid /\ wr[w2].cid = rd.cid
       /\ wr[w1].pc = "crashed"
       /\ wr[w2].pc = "dump" /\ wr[w2].pos > 0

\* the files whose content parses, in the order list_company_bundles visits them
Parseable(c) ==
    /\ files[company_bundle_path(c)] # NoFile
    /\ json_load(content[files[company_bundle_path(c)]]).exc = "none"

\* C7: a cache read never ends in an error: load_company_bundle returns the
\* empty bundle for an absent file and for a file that does not parse, the
\* parsed bundle otherwise; list_company_bundles returns the bundle of every
\* file that parses and skips the others.
C7_ReadsNeverRaise ==
    [][(rd' # rd /\ rd'.pc = "done")
         => /\ rd'.exc = "none"
            /\ (rd.pc # "opened" /\ rd'.op = "load")
                  => /\ files[company_bundle_path(rd'.cid)] = NoFile
                     /\ rd'.val = EmptyDict
            /\ rd.pc = "opened"
                  => rd'.val = IF json_load(content[rd.fd]).exc = "none"
                               THEN json_load(content[rd.fd]).val ELSE EmptyDict
            /\ rd'.op = "list"
                  => /\ rd'.val.t = "list"
                     /\ Len(rd'.val.lv) = Cardinality({c \in CompanyIds : Parseable(c)})
                     /\ \A c \in CompanyIds :
                          Parseable(c)
                            => \E i \in 1..Len(rd'.val.lv) :
                                 rd'.val.lv[i] = json_load(content[files[company_bundle_path(c)]]).val
      ]_storeVars

\* list_company_bundles has returned one bundle from a directory that holds a
\* file that parses and a file that does not
C7_Witness ==
    /\ rd.pc = "done" /\ rd.op = "list"
    /\ Len(rd.val.lv) = 1
    /\ \E c1, c2 \in CompanyIds :
         /\ Parseable(c1)
         /\ files[company_bundle_path(c2)] # NoFile
         /\ ~Parseable(c2)

C9_WriteReplacesWholesale ==
    [][\A w \in Writers :
          wr'[w] # wr[w]
            => IF Renames(w)
               THEN /\ read_now(wr[w].cid)' = [exc |-> "none", val |-> wr[w].data]
                    /\ \A c \in CompanyIds \ {wr[w].cid} :
                         stored_file(c)' = stored_file(c)
               ELSE \A c \in CompanyIds : stored_file(c)' = stored_file(c)
      ]_storeVars

\* two writes of one company have returned one after the other; the file holds
\* the later bundle, which lacks a key the earlier stored bundle had, and the
\* other company still holds its old bundle
C9_Witness ==
    \E w \in Writers, c2 \in CompanyIds :
       /\ wr[w].pc = "returned"
       /\ c2 # wr[w].cid
       /\ read_now(wr[w].cid).val = wr[w].data
       /\ "categories" \notin DOMAIN wr[w].data.dv
       /\ OldBundle \in given
       /\ stored_file(c2) = [present |-> TRUE, doc |-> json_dump(OldBundle)]
       /\ \E w2 \in Writers \ {w} : wr[w2].pc = "returned" /\ wr[w2].cid = wr[w].cid


(***************************************************************************)
(* The HTTP client: _request and _get of api.py and of utils.py.           *)
(* A URL is the sequence of its pieces; "/" is a piece of its own.         *)
(***************************************************************************)
\* BASE / RISK_API_BASE, with its trailing slashes stripped
BASE == <<"BASE">>

\* the paths _get is called with: list endpoints (no trailing slash), an
\* entity endpoint (trailing slash), a path without its leading slash, and
\* the empty path
Paths ==
    {<<"/", "get_companies">>,
     <<"/", "get_company_risk_grade", "/", "1", "/">>,
     <<"get_domains">>,
     << >>}

\* f"{BASE}{path if path.startswith('/') else '/'+path}"
full_url(path) ==
    BASE \o (IF Len(path) > 0 /\ path[1] = "/" THEN path ELSE <<"/">> \o path)

\* an alternate URL that is the URL itself
alt_url_same(url) == url

\* alt = url[:-1] if url.endswith("/") else url + "/"
alt_url(url) ==
    IF Len(url) > 0 /\ url[Len(url)] = "/"
    THEN SubSeq(url, 1, Len(url) - 1)
    ELSE Append(url, "/")

\* what one GET can come to: a 2xx JSON body, a 2xx body that is a bare
\* number, a non-2xx status, a 2xx body that is neither, and a failure of the
\* transport (timeout, connection error) raised by _session.http itself
Outcomes == {"json", "number", "status", "nonjson", "transport"}

Clients == {"api", "utils"}

\* _request(url) of the given module on a GET that came to outcome o: the
\* value returned, or the exception raised.  api.py lets HTTPError and the
\* transport's exception through and raises RuntimeError for a non-JSON body;
\* utils.py turns a bad status and a non-JSON body into RiskAPIError and lets
\* the transport's exception through.
request_result(client, o, body) ==
    CASE o = "json" -> [exc |-> "none", val |-> body]
      [] o = "number" -> [exc |-> "none", val |-> FloatV(body.iv)]
      [] o = "status" ->
           [exc |-> IF client = "api" THEN "HTTPError" ELSE "RiskAPIError", val |-> None]
      [] o = "nonjson" ->
           [exc |-> IF client = "api" THEN "RuntimeError" ELSE "RiskAPIError", val |-> None]
      [] o = "transport" -> [exc |-> "RequestException", val |-> None]

\* the except clause of _get: api.py has `except Exception`, utils.py has
\* `except RiskAPIError`
caught(client, exc) ==
    IF client = "api" THEN exc # "none" ELSE exc = "RiskAPIError"

\* the bodies upstream answers with
Bodies == {IntV(1), IntV(2)}

\* _get(path) is called
GetCall(client, path) ==
    /\ http.pc = "idle"
    /\ http' = [http EXCEPT !.pc = "first", !.client = client, !.path = path,
                            !.url = full_url(path)]
    /\ UNCHANGED <<storeVars, normVars, buildVars>>

\* the first _request(url), and the except clause around it
FirstRequest(o, body) ==
    /\ http.pc = "first"
    /\ LET r == request_result(http.client, o, body)
           sent == Append(http.reqs, [url |-> http.url, exc |-> r.exc, val |-> r.val])
       IN IF r.exc = "none"
          THEN http' = [http EXCEPT !.pc = "returned", !.reqs = sent, !.val = r.val]
          ELSE IF caught(http.client, r.exc) /\ alt_url(http.url) # http.url
          THEN http' = [http EXCEPT !.pc = "second", !.reqs = sent]
          ELSE http' = [http EXCEPT !.pc = "raised", !.reqs = sent, !.exc = r.exc]
    /\ UNCHANGED <<storeVars, normVars, buildVars>>

\* return _request(alt): its value or its exception is the call's
SecondRequest(o, body) ==
    /\ http.pc = "second"
    /\ LET r == request_result(http.client, o, body)
           sent == Append(http.reqs, [url |-> alt_url(http.url), exc |-> r.exc, val |-> r.val])
       IN http' = [http EXCEPT !.pc = IF r.exc = "none" THEN "returned" ELSE "raised",
                             !.reqs = sent, !.exc = r.exc, !.val = r.val]
    /\ UNCHANGED <<storeVars, normVars, buildVars>>

InitFetch ==
    /\ files = [n \in Names |-> NoFile]
    /\ content = [i \in Inodes |-> << >>]
    /\ mtime = [i \in Inodes |-> 0]
    /\ wr = [w \in Writers |-> IdleWriter]
    /\ rd = IdleReader
    /\ given = {}
    /\ http = IdleHttp
    /\ ref = << >>
    /\ normed = << >>
    /\ rating_row = EmptyDict
    /\ rated = << >>
    /\ bld = IdleBuild
    /\ log = << >>
    /\ clock = 1

NextFetch ==
    \/ \E client \in Clients, path \in Paths : GetCall(client, path)
    \/ \E o \in Outcomes, body \in Bodies : FirstRequest(o, body)
    \/ \E o \in Outcomes, body \in Bodies : SecondRequest(o, body)

SpecFetch == InitFetch /\ [][NextFetch]_vars

\* C2: a finished fetch has sent one request or two; one when the first
\* succeeded, whose value is then the result; and when the first failed, for
\* whatever reason, exactly one more, to the URL with the trailing slash
\* toggled, whose value or error is then the result.
C2_AtMostOneRetryOnAnyFailure ==
    http.pc \in {"returned", "raised"}
      => /\ Len(http.reqs) \in {1, 2}
         /\ http.reqs[1].url = full_url(http.path)
         /\ http.reqs[1].exc = "none"
              => /\ Len(http.reqs) = 1
                 /\ http.pc = "returned" /\ http.val = http.reqs[1].val
         /\ http.reqs[1].exc # "none"
              => /\ Len(http.reqs) = 2
                 /\ http.reqs[2].url = alt_url(http.reqs[1].url)
                 /\ http.exc = http.reqs[2].exc
                 /\ http.val = http.reqs[2].val
                 /\ (http.pc = "returned") = (http.reqs[2].exc = "none")

\* the fetch is over and its first request failed
first_failed ==
    /\ http.pc \in {"returned", "raised"}
    /\ http.reqs[1].exc # "none"

\* C22, as the spec has it: a fetch of the empty path, whose alternate URL
\* would equal the original, makes no retry, and the error of its only
\* request propagates.
C22_EmptyPathNoRetry ==
    (first_failed /\ http.path = << >>)
      => /\ Len(http.reqs) = 1
         /\ http.pc = "raised" /\ http.exc = http.reqs[1].exc

\* C22, corrected: the alternate URL differs from the original for every
\* path, the empty path included (BASE/ against BASE), so every failed first
\* request that _get catches is retried once, at the alternate URL; the
\* original error propagates without a retry only when _get does not catch it.
C22_AlternateAlwaysDiffers ==
    first_failed
      => /\ alt_url(http.url) # http.url
         /\ IF caught(http.client, http.reqs[1].exc)
            THEN /\ Len(http.reqs) = 2
                 /\ http.reqs[2].url = alt_url(http.reqs[1].url)
                 /\ http.reqs[2].url # http.reqs[1].url
            ELSE /\ Len(http.reqs) = 1
                 /\ http.pc = "raised" /\ http.exc = http.reqs[1].exc

\* a failed fetch of the empty path that was retried at BASE
C22_Witness ==
    /\ first_failed /\ http.path = << >>
    /\ Len(http.reqs) = 2
    /\ http.reqs[1].url = BASE \o <<"/">> /\ http.reqs[2].url = BASE


(***************************************************************************)
(* Control references: norm_ref of utils/normalization.py and _norm_ref of *)
(* charts/charts_helpers.py.  A string is the sequence of its characters.  *)
(***************************************************************************)
\* the longest reference typed in
MaxRefLen == 6

\* the characters typed in: a letter, a digit and the separators
RefChars == {"a", "1", ".", "-", "_", " "}

\* the references of the documentation
RefExamples ==
    { <<"P", "R", "-", "P", "S", "-", "1">>,
      <<"p", "r", "_", "p", "s", "_", "0", "1">>,
      <<"P", "R", ".", "P", "S", "-", "1">>,
      <<"G", "V", ".", "O", "C", "-", "0", "2">> }

UpperOf ==
    [c \in {"a", "p", "r", "s", "g", "v", "o", "c", "x", "i", "d", "e", "m"} |->
       CASE c = "a" -> "A" [] c = "p" -> "P" [] c = "r" -> "R" [] c = "s" -> "S"
         [] c = "g" -> "G" [] c = "v" -> "V" [] c = "o" -> "O" [] c = "c" -> "C"
         [] c = "x" -> "X" [] c = "i" -> "I" [] c = "d" -> "D" [] c = "e" -> "E"
         [] c = "m" -> "M"]

\* s.upper()
upper(s) == [i \in 1..Len(s) |-> IF s[i] \in DOMAIN UpperOf THEN UpperOf[s[i]] ELSE s[i]]

RECURSIVE lstrip(_)
lstrip(s) == IF s # << >> /\ Head(s) = " " THEN lstrip(Tail(s)) ELSE s

RECURSIVE rstrip(_)
rstrip(s) ==
    IF s # << >> /\ s[Len(s)] = " " THEN rstrip(SubSeq(s, 1, Len(s) - 1)) ELSE s

\* s.strip()
strip(s) == rstrip(lstrip(s))

\* c in s
contains(s, c) == \E i \in 1..Len(s) : s[i] = c

\* s.split("-", 1): the text before the first "-" and the text after it
split_dash(s) ==
    LET i == CHOOSE i \in 1..Len(s) : s[i] = "-" /\ \A j \in 1..(i - 1) : s[j] # "-"
    IN [prefix |-> SubSeq(s, 1, i - 1), tail |-> SubSeq(s, i + 1, Len(s))]

\* s.replace(a, b) for single characters
replace(s, a, b) == [i \in 1..Len(s) |-> IF s[i] = a THEN b ELSE s[i]]

RECURSIVE replace_dotdot(_)
\* s.replace("..", "."): one pass from the left, without overlap
replace_dotdot(s) ==
    IF s = << >> THEN << >>
    ELSE IF Len(s) >= 2 /\ s[1] = "." /\ s[2] = "."
    THEN <<".">> \o replace_dotdot(SubSeq(s, 3, Len(s)))
    ELSE <<s[1]>> \o replace_dotdot(Tail(s))

RECURSIVE collapse_dots(_)
\* while ".." in s: s = s.replace("..", ".")
collapse_dots(s) ==
    IF \E i \in 1..(Len(s) - 1) : s[i] = "." /\ s[i + 1] = "."
    THEN collapse_dots(replace_dotdot(s))
    ELSE s

\* s.isdigit()
isdigit(s) == s # << >> /\ \A i \in 1..Len(s) : \E n \in 1..10 : Digits[n] = s[i]

\* s.zfill(2) of a string of digits
zfill2(s) ==
    CASE Len(s) = 0 -> <<"0", "0">>
      [] Len(s) = 1 -> <<"0">> \o s
      [] OTHER -> s

RECURSIVE split_dot(_)
\* s.split(".")
split_dot(s) ==
    IF ~contains(s, ".") THEN <<s>>
    ELSE LET i == CHOOSE i \in 1..Len(s) : s[i] = "." /\ \A j \in 1..(i - 1) : s[j] # "."
         IN <<SubSeq(s, 1, i - 1)>> \o split_dot(SubSeq(s, i + 1, Len(s)))

\* norm_ref(s) of utils/normalization.py
norm_ref(s0) ==
    IF s0 = << >> THEN << >>
    ELSE LET s == strip(upper(s0)) IN
      IF contains(s, "-")
      THEN LET prefix == collapse_dots(replace(replace(split_dash(s).prefix, "_", "."), "-", "."))
               tail == strip(split_dash(s).tail)
           IN prefix \o <<"-">> \o (IF isdigit(tail) THEN zfill2(tail) ELSE tail)
      ELSE LET s2 == collapse_dots(replace(replace(s, "_", "."), "-", "."))
               parts == SelectSeq(split_dot(s2), LAMBDA p : p # << >>)
           IN IF Len(parts) >= 3 /\ isdigit(parts[3])
              THEN parts[1] \o <<".">> \o parts[2] \o <<"-">> \o zfill2(parts[3])
              ELSE s

\* _norm_ref(s) of charts/charts_helpers.py
_norm_ref(s0) ==
    IF s0 = << >> THEN << >>
    ELSE LET s == strip(upper(s0)) IN
      IF contains(s, "-")
      THEN LET prefix == collapse_dots(replace(replace(split_dash(s).prefix, "_", "."), "-", "."))
               tail == strip(split_dash(s).tail)
           IN prefix \o <<"-">> \o (IF isdigit(tail) THEN zfill2(tail) ELSE tail)
      ELSE LET s2 == collapse_dots(replace(replace(s, "_", "."), "-", "."))
               parts == SelectSeq(split_dot(s2), LAMBDA p : p # << >>)
           IN IF Len(parts) >= 3 /\ isdigit(parts[3])
              THEN parts[1] \o <<".">> \o parts[2] \o <<"-">> \o zfill2(parts[3])
              ELSE s

\* a character is typed at the end of the reference
TypeChar(c) ==
    /\ normed = << >>
    /\ Len(ref) < MaxRefLen
    /\ ref' = Append(ref, c)
    /\ UNCHANGED <<normed, rating_row, rated, storeVars, fetchVars, buildVars>>

\* norm_ref(ref)
NormRef ==
    /\ normed = << >>
    /\ normed' = << [fn |-> "norm_ref", out |-> norm_ref(ref)] >>
    /\ UNCHANGED <<ref, rating_row, rated, storeVars, fetchVars, buildVars>>

\* _norm_ref(ref)
NormRefCharts ==
    /\ normed = << >>
    /\ normed' = << [fn |-> "_norm_ref", out |-> _norm_ref(ref)] >>
    /\ UNCHANGED <<ref, rating_row, rated, storeVars, fetchVars, buildVars>>

\* the result is normalized again, by the same function
NormAgain ==
    /\ Len(normed) = 1
    /\ normed' = Append(normed,
                   [fn |-> normed[1].fn,
                    out |-> IF normed[1].fn = "norm_ref" THEN norm_ref(normed[1].out)
                            ELSE _norm_ref(normed[1].out)])
    /\ UNCHANGED <<ref, rating_row, rated, storeVars, fetchVars, buildVars>>

InitNorm ==
    /\ files = [n \in Names |-> NoFile]
    /\ content = [i \in Inodes |-> << >>]
    /\ mtime = [i \in Inodes |-> 0]
    /\ wr = [w \in Writers |-> IdleWriter]
    /\ rd = IdleReader
    /\ given = {}
    /\ http = IdleHttp
    /\ ref \in RefExamples \cup {<< >>}
    /\ normed = << >>
    /\ rating_row = EmptyDict
    /\ rated = << >>
    /\ bld = IdleBuild
    /\ log = << >>
    /\ clock = 1

NextNorm ==
    \/ \E c \in RefChars : TypeChar(c)
    \/ NormRef
    \/ NormRefCharts
    \/ NormAgain

SpecNorm == InitNorm /\ [][NextNorm]_vars

\* C19: PR-PS-1, pr_ps_01 and PR.PS-1 normalize to PR.PS-01, and GV.OC-02 to
\* itself.
C19_DocumentedSpellingsNormalize ==
    (normed # << >> /\ ref \in RefExamples)
      => normed[1].out =
           IF ref = <<"G", "V", ".", "O", "C", "-", "0", "2">>
           THEN <<"G", "V", ".", "O", "C", "-", "0", "2">>
           ELSE <<"P", "R", ".", "P", "S", "-", "0", "1">>

\* C20: normalizing a normalized reference changes nothing.
C20_NormalizeIdempotent ==
    Len(normed) = 2 => normed[2].out = normed[1].out


(***************************************************************************)
(* Function codes: get_function_from_code_or_ref of nist/nist_helpers.py   *)
(* and of helpers.py.                                                      *)
(***************************************************************************)
\* the longest reference or code typed in
MaxCodeLen == 4

\* the characters typed in: the letters of GV, a letter of no code, a digit
\* and the separators
CodeChars == {"g", "v", "x", "1", ".", "-", "_", " "}

\* references and bare codes of the other five functions
CodeExamples ==
    { <<"I", "D", ".", "A", "M">>,
      <<"p", "r", "_", "p", "s", "_", "0", "1">>,
      <<"D", "E">>,
      <<"r", "s", ".", "m", "a", "-", "1">>,
      <<"R", "C", ".", "R", "P", "-", "0", "1">> }

\* the keys of nist_mappings.CSF_L1_FUNCTION_FULL, in their order
CSF_L1_FUNCTION_FULL ==
    << <<"G", "V">>, <<"I", "D">>, <<"P", "R">>, <<"D", "E">>, <<"R", "S">>, <<"R", "C">> >>

\* the known function codes
FunctionCodes == {CSF_L1_FUNCTION_FULL[i] : i \in 1..Len(CSF_L1_FUNCTION_FULL)}

\* prefix(x) of utils/normalization.py
prefix(x0) ==
    IF x0 = << >> THEN << >>
    ELSE LET x1 == strip(upper(x0))
             x2 == IF contains(x1, "-") THEN split_dash(x1).prefix ELSE x1
             x3 == collapse_dots(replace(replace(x2, "_", "."), "-", "."))
             parts == SelectSeq(split_dot(x3), LAMBDA p : p # << >>)
         IN IF Len(parts) >= 2 THEN parts[1] \o <<".">> \o parts[2]
            ELSE IF parts # << >> THEN parts[1] ELSE << >>

\* s.split(".", 1)[0]
before_dot(s) == split_dot(s)[1]

\* s.startswith(p)
startswith(s, p) == Len(s) >= Len(p) /\ SubSeq(s, 1, Len(p)) = p

\* the last line of nist_helpers.get_function_from_code_or_ref:
\* return normalized.split(".", 1)[0]
fallback_first_segment(normalized) == before_dot(normalized)

\* get_function_from_code_or_ref(ref) of nist/nist_helpers.py
get_function_from_code_or_ref(r) ==
    LET normalized == norm_ref(r)
        head == before_dot(normalized)
        prefix_head == IF prefix(normalized) # << >>
                       THEN split_dot(prefix(normalized))[1] ELSE << >>
        starts == {i \in 1..Len(CSF_L1_FUNCTION_FULL) :
                     startswith(normalized, CSF_L1_FUNCTION_FULL[i])}
    IN IF normalized = << >> THEN << >>
       ELSE IF head \in FunctionCodes THEN head
       ELSE IF prefix_head \in FunctionCodes THEN prefix_head
       ELSE IF starts # {}
       THEN CSF_L1_FUNCTION_FULL[CHOOSE i \in starts : \A j \in starts : i <= j]
       ELSE fallback_first_segment(normalized)

\* helpers.py:179-180: the two characters before the dot, whatever they are
two_char_head(s) == upper(before_dot(s))

\* get_function_from_code_or_ref(s) of helpers.py
helpers_get_function_from_code_or_ref(s0) ==
    IF s0 = << >> THEN << >>
    ELSE LET s == strip(s0)
             first2 == upper(SubSeq(s, 1, IF Len(s) < 2 THEN Len(s) ELSE 2))
         IN IF contains(s, ".") /\ Len(before_dot(s)) = 2 THEN two_char_head(s)
            ELSE IF startswith(upper(s), <<"G", "V", ".">>) THEN <<"G", "V">>
            ELSE IF first2 \in FunctionCodes THEN first2 ELSE << >>

\* a character is typed at the end of the reference
TypeCode(c) ==
    /\ normed = << >>
    /\ Len(ref) < MaxCodeLen
    /\ ref' = Append(ref, c)
    /\ UNCHANGED <<normed, rating_row, rated, storeVars, fetchVars, buildVars>>

\* nist_helpers.get_function_from_code_or_ref(ref)
FunctionCode ==
    /\ normed = << >>
    /\ normed' = << [fn |-> "nist_helpers.get_function_from_code_or_ref",
                     out |-> get_function_from_code_or_ref(ref)] >>
    /\ UNCHANGED <<ref, rating_row, rated, storeVars, fetchVars, buildVars>>

\* helpers.get_function_from_code_or_ref(ref)
FunctionCodeHelpers ==
    /\ normed = << >>
    /\ normed' = << [fn |-> "helpers.get_function_from_code_or_ref",
                     out |-> helpers_get_function_from_code_or_ref(ref)] >>
    /\ UNCHANGED <<ref, rating_row, rated, storeVars, fetchVars, buildVars>>

InitCode ==
    /\ files = [n \in Names |-> NoFile]
    /\ content = [i \in Inodes |-> << >>]
    /\ mtime = [i \in Inodes |-> 0]
    /\ wr = [w \in Writers |-> IdleWriter]
    /\ rd = IdleReader
    /\ given = {}
    /\ http = IdleHttp
    /\ ref \in CodeExamples \cup {<< >>}
    /\ normed = << >>
    /\ rating_row = EmptyDict
    /\ rated = << >>
    /\ bld = IdleBuild
    /\ log = << >>
    /\ clock = 1

NextCode ==
    \/ \E c \in CodeChars : TypeCode(c)
    \/ FunctionCode
    \/ FunctionCodeHelpers

SpecCode == InitCode /\ [][NextCode]_vars

\* the function code a reference spells out: the reference, without the
\* spaces around it and in capitals, is a known code, or begins with a known
\* code and a separator
spelled_code(s) ==
    LET u == strip(upper(s)) IN
      {c \in FunctionCodes :
         u = c \/ \E sep \in {".", "-", "_"} : startswith(u, c \o <<sep>>)}

\* C21: function_code returns one of the six codes GV, ID, PR, DE, RS, RC or
\* the empty string: the code the reference spells out when it spells one,
\* and the empty string when no known code is derivable from it.
C21_FunctionCodeKnownOrEmpty ==
    normed # << >>
      => /\ normed[1].out \in FunctionCodes \cup {<< >>}
         /\ \A c \in spelled_code(ref) : normed[1].out = c


(***************************************************************************)
(* Ratings: _rating of charts/charts_helpers.py.  A text value is the      *)
(* sequence of its characters.                                             *)
(***************************************************************************)
\* the longest rating text typed in
MaxRatingLen == 3

\* the characters typed in: two digits, the separators of a number, a slash
\* and a space
RatingChars == {"3", "4", "/", ".", "-", " "}

\* a str value given by its characters
TextV(cs) == [t |-> "text", cs |-> cs]

\* the keys _rating probes, in their order
RatingKeys ==
    <<"cmm_rating", "rating", "level", "score", "value", "current_maturity",
      "current_rating", "cmm", "maturity", "risk_level", "risk_rating">>

\* ch.isdigit()
is_digit_char(ch) == \E n \in 1..10 : Digits[n] = ch

RECURSIVE int_of(_)
\* the integer a string of digits writes
int_of(ds) ==
    IF ds = << >> THEN 0
    ELSE 10 * int_of(SubSeq(ds, 1, Len(ds) - 1))
           + (CHOOSE n \in 0..9 : Digits[n + 1] = ds[Len(ds)])

RECURSIVE strip_zeros(_)
\* decimals without their trailing zeros
strip_zeros(ds) ==
    IF ds # << >> /\ ds[Len(ds)] = "0" THEN strip_zeros(SubSeq(ds, 1, Len(ds) - 1)) ELSE ds

\* the float of units and decimals: FloatV of an integer when no decimal is
\* left
DecimalV(neg, units, decimals) ==
    IF strip_zeros(decimals) = << >> THEN FloatV(IF neg THEN 0 - units ELSE units)
    ELSE [t |-> "float", fv |-> units, neg |-> neg, decimals |-> strip_zeros(decimals)]

\* float(s) of a str over digits, ".", "-" and other characters: the number
\* when s, without the spaces around it, is an optional "-", then digits
\* with at most one "." among them; ValueError otherwise
float_text(cs) ==
    LET s == strip(cs)
        neg == s # << >> /\ s[1] = "-"
        body == IF neg THEN Tail(s) ELSE s
        dots == {i \in 1..Len(body) : body[i] = "."}
        whole == IF dots = {} THEN body ELSE SubSeq(body, 1, (CHOOSE i \in dots : TRUE) - 1)
        decimals == IF dots = {} THEN << >>
                    ELSE SubSeq(body, (CHOOSE i \in dots : TRUE) + 1, Len(body))
        valid == /\ \A i \in 1..Len(body) : is_digit_char(body[i]) \/ body[i] = "."
                 /\ Cardinality(dots) <= 1
                 /\ \E i \in 1..Len(body) : is_digit_char(body[i])
    IN IF valid THEN [exc |-> "none", val |-> DecimalV(neg, int_of(whole), decimals)]
       ELSE [exc |-> "ValueError", val |-> None]

\* float(v) of a value of the row
float_value(v) == IF v.t = "text" THEN float_text(v.cs) ELSE float(v)

\* "".join(ch for ch in s if (ch.isdigit() or ch in ".-"))
only_number_chars(cs) ==
    SelectSeq(cs, LAMBDA ch : is_digit_char(ch) \/ ch \in {".", "-"})

\* the body of the loop of _rating for a value that is not None: float(v),
\* and when that raises, float of str(v) without the characters of no
\* number; None when nothing is returned and the loop goes on
tolerant_float(v) ==
    IF float_value(v).exc = "none" THEN float_value(v).val
    ELSE LET s2 == IF v.t = "text" THEN only_number_chars(v.cs) ELSE << >> IN
           IF s2 # << >> /\ float_text(s2).exc = "none" THEN float_text(s2).val
           ELSE None

RECURSIVE rating_from(_, _)
\* for k in keys, from the i-th key on
rating_from(r, i) ==
    IF i > Len(RatingKeys) THEN None
    ELSE LET v == get(r, RatingKeys[i]) IN
           IF v = None THEN rating_from(r, i + 1)
           ELSE IF tolerant_float(v) # None THEN tolerant_float(v)
           ELSE rating_from(r, i + 1)

\* _rating(row)
_rating(r) == rating_from(r, 1)

\* the rows handed to _rating before a cmm_rating is typed in: with or
\* without a rating and a risk_rating, and a gpa that is never probed
RatingRows ==
    {DictV(a @@ b @@ [gpa |-> IntV(9)]) :
       a \in {<< >>, [rating |-> IntV(2)], [rating |-> None]},
       b \in {<< >>, [risk_rating |-> TextV(<<"4">>)]}}

\* a character is typed at the end of the row's cmm_rating
TypeRating(c) ==
    /\ rated = << >>
    /\ "cmm_rating" \in DOMAIN rating_row.dv => rating_row.dv["cmm_rating"].t = "text"
    /\ LET old == IF "cmm_rating" \in DOMAIN rating_row.dv
                  THEN rating_row.dv["cmm_rating"].cs ELSE << >>
       IN /\ Len(old) < MaxRatingLen
          /\ rating_row' = DictV([cmm_rating |-> TextV(Append(old, c))] @@ rating_row.dv)
    /\ UNCHANGED <<ref, normed, rated, storeVars, fetchVars, buildVars>>

\* the row's cmm_rating is a number, or null
SetRating(v) ==
    /\ rated = << >>
    /\ "cmm_rating" \notin DOMAIN rating_row.dv
    /\ rating_row' = DictV([cmm_rating |-> v] @@ rating_row.dv)
    /\ UNCHANGED <<ref, normed, rated, storeVars, fetchVars, buildVars>>

\* _rating(row)
Rating ==
    /\ rated = << >>
    /\ rated' = << [out |-> _rating(rating_row)] >>
    /\ UNCHANGED <<ref, normed, rating_row, storeVars, fetchVars, buildVars>>

InitRating ==
    /\ files = [n \in Names |-> NoFile]
    /\ content = [i \in Inodes |-> << >>]
    /\ mtime = [i \in Inodes |-> 0]
    /\ wr = [w \in Writers |-> IdleWriter]
    /\ rd = IdleReader
    /\ given = {}
    /\ http = IdleHttp
    /\ ref = << >>
    /\ normed = << >>
    /\ rating_row \in RatingRows
    /\ rated = << >>
    /\ bld = IdleBuild
    /\ log = << >>
    /\ clock = 1

NextRating ==
    \/ \E c \in RatingChars : TypeRating(c)
    \/ \E v \in {None, IntV(0), FloatV(3)} : SetRating(v)
    \/ Rating

SpecRating == InitRating /\ [][NextRating]_vars

\* the keys of the row, in probing order, whose value yields a number
yielding_keys(r) ==
    {i \in 1..Len(RatingKeys) :
       get(r, RatingKeys[i]) # None /\ tolerant_float(get(r, RatingKeys[i])) # None}

\* C27: extract_rating probes the rating keys in their order and returns the
\* number of the first value that yields one, directly or once every
\* character other than digits, dot and minus is stripped, and null when no
\* key yields a number; a value like "3/4" yields 3.
C27_RatingFirstNumberInOrder ==
    rated # << >>
      => /\ rated[1].out =
              IF yielding_keys(rating_row) = {} THEN None
              ELSE tolerant_float(get(rating_row,
                     RatingKeys[CHOOSE i \in yielding_keys(rating_row) :
                                   \A j \in yielding_keys(rating_row) : i <= j]))
         /\ get(rating_row, "cmm_rating") = TextV(<<"3", "/", "4">>)
              => rated[1].out = FloatV(3)


(***************************************************************************)
(* The bundle builder: build_company_bundle, and                           *)
(* rebuild_company_bundle_for_id, which fetches the live lists, builds the *)
(* bundle of one company and writes it.                                    *)
(***************************************************************************)
\* helpers.CATEGORY_NAMES
CATEGORY_NAMES ==
    <<"Attack Surface", "Vulnerability Exposure", "IP Reputation & Threats",
      "Web Security Posture", "Leakage & Breach History", "Email Security">>

\* a comparison of keys that keeps their case
lower_as_is(k) == k

\* str(k).lower() for the keys upstream uses
lower(k) ==
    CASE k = "Links" -> "links"
      [] k = "HREF" -> "href"
      [] k = "Rel" -> "rel"
      [] k = "Category" -> "category"
      [] OTHER -> k

RECURSIVE _strip_transport(_)
\* _strip_transport(obj)
_strip_transport(obj) ==
    CASE obj.t = "dict" ->
           DictV([k \in {k \in DOMAIN obj.dv : lower(k) \notin {"href", "links", "link", "rel"}}
                    |-> _strip_transport(obj.dv[k])])
      [] obj.t = "list" ->
           ListV([i \in 1..Len(obj.lv) |-> _strip_transport(obj.lv[i])])
      [] OTHER -> obj

\* _items(x): x.get("items", x) if isinstance(x, dict) else x
_items(x) ==
    IF x.t = "dict" /\ "items" \in DOMAIN x.dv THEN x.dv["items"] ELSE x

\* try: x = float(x) if x is not None else None  except Exception: x = None
float_or_none(x) ==
    IF x = None THEN None
    ELSE IF float(x).exc = "none" THEN float(x).val ELSE None

\* an upstream fetch that raised, and one that returned v
Raised == [exc |-> "RequestException", val |-> None]

Returned(v) == [exc |-> "none", val |-> v]

(***************************************************************************)
(* Inputs: the company records and domain lists upstream answers with, and *)
(* what each endpoint wrapper can come to.                                 *)
(***************************************************************************)
CompanyRecords ==
    {DictV([company_id |-> IntV(1), name |-> StrV("Acme"), links |-> StrV("u"),
            contact |-> DictV([Rel |-> StrV("self"), email |-> StrV("e")])]),
     DictV([id |-> IntV(2), name |-> StrV("Bolt")]),
     DictV([company_id |-> IntV(1), id |-> IntV(2)]),
     DictV([company_id |-> IntV(0), id |-> IntV(2)]),
     DictV([company_id |-> IntV(0), name |-> StrV("Zero")]),
     DictV([name |-> StrV("Anon")])}

\* get_domains(): two domains of company 1 (one spelling its company as a
\* string under another key) and one of company 2
LiveDomains ==
    << DictV([domain_id |-> IntV(1), company_id |-> IntV(1), domain_name |-> StrV("a.example")]),
       DictV([domain_id |-> IntV(2), company_id |-> IntV(2), domain |-> StrV("b.example")]),
       DictV([id |-> IntV(3), cid |-> StrV("1"), links |-> StrV("u")]) >>

DomainLists == {<< >>, LiveDomains}

\* get_companies(): the live company lists
CompanyLists ==
    { << DictV([company_id |-> IntV(1), name |-> StrV("Acme"), links |-> StrV("u")]),
         DictV([id |-> IntV(2), name |-> StrV("Bolt")]) >>,
      << DictV([company_id |-> IntV(0), name |-> StrV("Zero")]),
         DictV([id |-> IntV(2), name |-> StrV("Bolt")]) >> }

\* the ids rebuild_company_bundle_for_id is asked for
RebuildIds == {IntV(0), IntV(1), StrV("2"), IntV(3)}

\* get_company_risk_grade(cid): it raises, answers null, or answers the
\* grade, with the navigation links upstream adds
RiskGradeResults(cid) ==
    {Raised, Returned(None),
     Returned(DictV([risk_grade |-> StrV("B"), total_gpa |-> IntV(3),
                     Links |-> ListV(<< DictV([rel |-> StrV("self"), href |-> StrV("u")]) >>),
                     detail |-> DictV([HREF |-> StrV("u"), grade |-> StrV("B")])]))}

\* position of a category in CATEGORY_NAMES
cat_index(cat) == CHOOSE i \in 1..Len(CATEGORY_NAMES) : CATEGORY_NAMES[i] = cat

\* get_category_gpa(cid, cat), before _items: it raises, or answers in one
\* of the shapes of upstream: nothing (null, no item), a bare row, the items
\* envelope around a row that names its category, a row under the other
\* keys, a row whose GPA is 0, a row whose score is no number
CategoryGpaResults(cid, cat) ==
    {Raised} \cup
    CASE cat_index(cat) = 1 ->
           {Returned(None),
            Returned(DictV([category_gpa |-> IntV(2), category_score |-> IntV(1)]))}
      [] cat_index(cat) = 2 ->
           {Returned(DictV([items |-> ListV(<< >>)])),
            Returned(DictV([items |-> ListV(<<
               DictV([Category |-> StrV(cat), category_gpa |-> IntV(2),
                      category_score |-> IntV(2), links |-> StrV("u")]) >>)]))}
      [] cat_index(cat) = 3 ->
           {Returned(DictV([category |-> StrV(cat), gpa |-> StrV("2"), score |-> IntV(3)])),
            Returned(DictV([category_gpa |-> IntV(0), category_score |-> IntV(3)]))}
      [] cat_index(cat) = 4 ->
           {Returned(DictV([category |-> StrV(cat), gpa |-> StrV("2"),
                            score |-> StrV("n/a")]))}
      [] OTHER ->
           {Returned(DictV([category |-> StrV(cat), gpa |-> StrV("2"),
                            score |-> IntV(cat_index(cat))]))}

\* get_domain_score(did): it raises, or answers a number, a numeric string,
\* 0, or something that is no number (a word, an object)
DomainScoreResults(did) ==
    CASE did = IntV(1) -> {Raised, Returned(FloatV(5))}
      [] did = IntV(2) -> {Returned(DictV([domain_score |-> IntV(5)])), Returned(IntV(0))}
      [] OTHER -> {Raised, Returned(StrV("7")), Returned(StrV("n/a"))}

\* one finding of upstream for (did, cat)
finding(did, cat) ==
    [Category |-> StrV(cat), domain |-> did, finding_score |-> IntV(cat_index(cat))]

\* get_findings_by_category(did, cat), before _items: it raises, or answers
\* in one of the shapes of upstream: the items envelope, the findings
\* wrapper, a single object, a bare list, and nothing: a scalar, the empty
\* object or null, depending on the domain
FindingsResults(did, cat) ==
    {Raised} \cup
    CASE cat_index(cat) = 1 ->
           {Returned(DictV([items |->
               ListV(<< DictV([links |-> StrV("u")] @@ finding(did, cat)) >>)]))}
      [] cat_index(cat) = 2 ->
           {Returned(DictV([findings |-> ListV(<< DictV(finding(did, cat)) >>)]))}
      [] cat_index(cat) = 3 ->
           {Returned(DictV([HREF |-> StrV("u")] @@ finding(did, cat)))}
      [] cat_index(cat) = 4 ->
           {Returned(ListV(<< DictV(finding(did, cat)), StrV("junk") >>))}
      [] cat_index(cat) = 5 ->
           {Returned(CASE did = IntV(1) -> StrV("n/a")
                       [] did = IntV(2) -> None
                       [] OTHER -> EmptyDict)}
      [] OTHER ->
           {Returned(DictV([items |->
               ListV(<< DictV([ref |-> DictV([rel |-> StrV("self"), id |-> IntV(7)])]
                              @@ finding(did, cat)) >>)]))}

(***************************************************************************)
(* build_company_bundle(company, all_domains)                              *)
(***************************************************************************)
\* cid = company.get("company_id") or company.get("id")
company_cid(company) == or(get(company, "company_id"), get(company, "id"))

\* _dcid(d): d.get("company_id") or d.get("companyId") or d.get("cid")
_dcid(d) == or(or(get(d, "company_id"), get(d, "companyId")), get(d, "cid"))

\* every domain of the list, whosever it is, stripped
domains_unfiltered(all_domains, cid) == _strip_transport(ListV(all_domains)).lv

\* [d for d in (all_domains or []) if str(_dcid(d)) == sid], then stripped
domains_for_company(all_domains, cid) ==
    _strip_transport(ListV(SelectSeq(all_domains, LAMBDA d : str(_dcid(d)) = str(cid)))).lv

\* a record of `categories` named only by what upstream calls the category
category_record_upstream_name(payload, cat) ==
    LET first == IF payload.t = "list" /\ truthy(payload) THEN payload.lv[1] ELSE payload
        row == IF first.t = "dict" THEN first ELSE EmptyDict
    IN DictV([Category |-> or(get(row, "Category"), get(row, "category")),
              category_gpa |-> None, category_score |-> None, aggregated_at |-> None])

\* one record of `categories` from the payload of get_category_gpa
category_record(payload, cat) ==
    LET first == IF payload.t = "list" /\ truthy(payload) THEN payload.lv[1] ELSE payload
        row == IF first.t = "dict" THEN first
               ELSE DictV([Category |-> StrV(cat), category_gpa |-> None,
                           category_score |-> None])
        c_name == or(or(get(row, "Category"), get(row, "category")), StrV(cat))
        gpa == or(or(get(row, "category_gpa"), get(row, "gpa")), get(row, "value"))
        score == or(get(row, "category_score"), get(row, "score"))
        aggregated_at == or(or(get(row, "aggregated_at"), get(row, "date")), None)
    IN DictV([Category |-> c_name,
              category_gpa |-> float_or_none(gpa),
              category_score |-> float_or_none(score),
              aggregated_at |-> aggregated_at])

\* a row kept with its Category key
keep_category(r) == r

\* r.pop("Category", None)
pop_category(r) == DictV([k \in DOMAIN r.dv \ {"Category"} |-> r.dv[k]])

\* rows taken from a list only: every object is a single row
finding_rows_no_wrapper(raw) ==
    LET rows == IF raw.t = "list" THEN raw.lv
                ELSE IF raw.t = "dict" /\ truthy(raw) THEN <<raw>>
                ELSE << >>
        dicts == SelectSeq(rows, LAMBDA r : r.t = "dict")
    IN _strip_transport(ListV([i \in 1..Len(dicts) |-> pop_category(dicts[i])]))

\* the rows stored for one (domain, category) from the payload of
\* get_findings_by_category
finding_rows(raw) ==
    LET rows ==
          IF raw.t = "dict" /\ get(raw, "findings").t = "list" THEN get(raw, "findings").lv
          ELSE IF raw.t = "list" THEN raw.lv
          ELSE IF raw.t = "dict" /\ truthy(raw) THEN <<raw>>
          ELSE << >>
        dicts == SelectSeq(rows, LAMBDA r : r.t = "dict")
    IN _strip_transport(ListV([i \in 1..Len(dicts) |-> pop_category(dicts[i])]))

\* d.get("domain_id") or d.get("id") or d.get("domainId")
domain_did(d) == or(or(get(d, "domain_id"), get(d, "id")), get(d, "domainId"))

\* d.get("domain_name") or d.get("domain") or d.get("name")
domain_dname(d) == or(or(get(d, "domain_name"), get(d, "domain")), get(d, "name"))

\* the bundle assembled at the end of build_company_bundle
bundle_of(b, details, now) ==
    DictV([schema_version |-> IntV(1),
           generated_at |-> IntV(now),
           company_id |-> b.cid,
           company |-> _strip_transport(b.company),
           risk_grade |-> b.risk_grade,
           categories |-> ListV(b.categories),
           domains |-> ListV(details)])


\* an exception that is swallowed inside the loop, which goes on
raises_and_goes_on(b, exc) == [b EXCEPT !.pc = "loop", !.idx = @ + 1]

\* an exception leaves the operation: it reaches the caller, except under
\* api.rebuild_all_company_jsons, whose `except Exception` returns 0
raises(b, exc) ==
    IF b.op = "rebuild_all_company_jsons"
    THEN [b EXCEPT !.pc = "returned", !.ret = IntV(0)]
    ELSE [b EXCEPT !.pc = "raised", !.exc = exc]

\* a builder whose lists outlive the call
build_enter_keeping_lists(b, company, all_domains) ==
    LET cid == company_cid(company) IN
      IF cid = None
      THEN raises([b EXCEPT !.company = company, !.all_domains = all_domains], "ValueError")
      ELSE [b EXCEPT !.company = company, !.all_domains = all_domains,
                     !.cid = cid, !.pc = "risk"]

\* a builder that strips the transport keys in place, in the objects it
\* was passed
build_enter_stripping_arguments(b, company, all_domains) ==
    LET cid == company_cid(company) IN
      IF cid = None
      THEN raises([b EXCEPT !.company = company, !.all_domains = all_domains], "ValueError")
      ELSE [b EXCEPT !.company = _strip_transport(company),
                     !.all_domains = _strip_transport(ListV(all_domains)).lv,
                     !.cid = cid, !.pc = "risk",
                     !.categories = << >>, !.details = << >>, !.per_cat = << >>]

\* the entry of build_company_bundle: cid, and ValueError when it is None;
\* categories and domain_details are new lists in every call
build_enter(b, company, all_domains) ==
    LET cid == company_cid(company) IN
      IF cid = None
      THEN raises([b EXCEPT !.company = company, !.all_domains = all_domains], "ValueError")
      ELSE [b EXCEPT !.company = company, !.all_domains = all_domains,
                     !.cid = cid, !.pc = "risk",
                     !.categories = << >>, !.details = << >>, !.per_cat = << >>]

\* the return of build_company_bundle: to the caller of build, or back into
\* rebuild_company_bundle_for_id
build_return(b, details, now) ==
    [b EXCEPT !.details = details,
              !.ret = bundle_of(b, details, now),
              !.pc = IF b.op = "build" THEN "returned" ELSE "built"]

\* what upstream answers a fetch with: any of its answers in a single build
\* or rebuild (run 0); in the rebuilds that loop or repeat, a failure or an
\* answer that holds something
offered(S) ==
    IF bld.run = 0 \/ Cardinality(S \ {Raised}) = 1 THEN S
    ELSE {r \in S : r = Raised \/ r.val \notin {None, DictV([items |-> ListV(<< >>)])}}

\* one entry of the log of fetches
fetched(fn, a1, a2, r) == [fn |-> fn, a1 |-> a1, a2 |-> a2, exc |-> r.exc, val |-> r.val]

\* build_company_bundle(company, all_domains) is called
BuildCall(company, all_domains) ==
    /\ bld.pc = "idle"
    /\ bld' = build_enter([bld EXCEPT !.op = "build"], company, all_domains)
    /\ UNCHANGED <<storeVars, fetchVars, normVars, log, clock>>

\* risk_grade = _strip_transport(get_company_risk_grade(cid) or {})
FetchRiskGrade ==
    /\ bld.pc = "risk"
    /\ \E r \in offered(RiskGradeResults(bld.cid)) :
         /\ log' = Append(log, fetched("get_company_risk_grade", bld.cid, None, r))
         /\ bld' = IF r.exc # "none"
                   THEN raises(bld, r.exc)
                   ELSE [bld EXCEPT !.risk_grade = _strip_transport(or(r.val, EmptyDict)),
                                    !.pc = "cat", !.ci = 1]
         /\ UNCHANGED <<storeVars, fetchVars, normVars, clock>>

\* one round of `for cat in CATEGORY_NAMES` (step 3); after the last round
\* the domains are filtered (step 4), and with no domain the bundle is done
FetchCategoryGpa ==
    /\ bld.pc = "cat"
    /\ \E r \in offered(CategoryGpaResults(bld.cid, CATEGORY_NAMES[bld.ci])) :
         /\ LET cat == CATEGORY_NAMES[bld.ci]
                cats == Append(bld.categories, category_record(_items(r.val), cat))
                doms == domains_for_company(bld.all_domains, bld.cid)
            IN /\ log' = Append(log, fetched("get_category_gpa", bld.cid, StrV(cat), r))
               /\ IF r.exc # "none"
                  THEN /\ bld' = raises(bld, r.exc)
                       /\ UNCHANGED clock
                  ELSE IF bld.ci < Len(CATEGORY_NAMES)
                  THEN /\ bld' = [bld EXCEPT !.categories = cats, !.ci = @ + 1]
                       /\ UNCHANGED clock
                  ELSE IF Len(doms) > 0
                  THEN /\ bld' = [bld EXCEPT !.categories = cats, !.doms = doms,
                                             !.pc = "dscore", !.di = 1]
                       /\ UNCHANGED clock
                  ELSE /\ bld' = build_return([bld EXCEPT !.categories = cats], << >>, clock)
                       /\ clock' = clock + 1
         /\ UNCHANGED <<storeVars, fetchVars, normVars>>

\* a score stored as upstream answered it
dscore_unconverted(r) == IF r.exc # "none" THEN None ELSE r.val

\* dscore after the two try blocks: None when get_domain_score raised, else
\* float(dscore) if dscore is not None else None, None when float() raises
dscore_of(r) == IF r.exc # "none" THEN None ELSE float_or_none(r.val)

\* dscore = get_domain_score(did), None when the fetch or float() raises
FetchDomainScore ==
    /\ bld.pc = "dscore"
    /\ \E r \in DomainScoreResults(domain_did(bld.doms[bld.di])) :
         /\ log' = Append(log, fetched("get_domain_score", domain_did(bld.doms[bld.di]), None, r))
         /\ bld' = [bld EXCEPT !.dscore = dscore_of(r),
                               !.per_cat = << >>, !.pc = "find", !.ci = 1]
         /\ UNCHANGED <<storeVars, fetchVars, normVars, clock>>

\* one round of the inner `for cat in CATEGORY_NAMES` (step 5); after the
\* last round the domain's record is appended, and after the last domain the
\* bundle is done
FetchFindings ==
    /\ bld.pc = "find"
    /\ \E r \in offered(FindingsResults(domain_did(bld.doms[bld.di]), CATEGORY_NAMES[bld.ci])) :
         /\ LET d == bld.doms[bld.di]
                cat == CATEGORY_NAMES[bld.ci]
                per_cat == (cat :> finding_rows(_items(r.val))) @@ bld.per_cat
                details == Append(bld.details,
                             DictV([domain_id |-> domain_did(d),
                                    domain_name |-> domain_dname(d),
                                    domain_score |-> bld.dscore,
                                    findings_by_category |-> DictV(per_cat)]))
            IN /\ log' = Append(log, fetched("get_findings_by_category", domain_did(d), StrV(cat), r))
               /\ IF r.exc # "none"
                  THEN /\ bld' = raises(bld, r.exc)
                       /\ UNCHANGED clock
                  ELSE IF bld.ci < Len(CATEGORY_NAMES)
                  THEN /\ bld' = [bld EXCEPT !.per_cat = per_cat, !.ci = @ + 1]
                       /\ UNCHANGED clock
                  ELSE IF bld.di < Len(bld.doms)
                  THEN /\ bld' = [bld EXCEPT !.per_cat = per_cat, !.details = details,
                                             !.pc = "dscore", !.di = @ + 1]
                       /\ UNCHANGED clock
                  ELSE /\ bld' = build_return([bld EXCEPT !.per_cat = per_cat], details, clock)
                       /\ clock' = clock + 1
         /\ UNCHANGED <<storeVars, fetchVars, normVars>>

(***************************************************************************)
(* rebuild_company_bundle_for_id(company_id)                               *)
(***************************************************************************)
\* the cache directory as a rebuild finds it
directory == [files |-> files, content |-> content, mtime |-> mtime]

\* rebuild_company_bundle_for_id(company_id) is called
RebuildCall(company_id) ==
    /\ bld.pc = "idle"
    /\ bld' = [bld EXCEPT !.op = "rebuild_company_bundle_for_id", !.arg = company_id,
                          !.before = directory, !.pc = "companies"]
    /\ UNCHANGED <<storeVars, fetchVars, normVars, log, clock>>

\* cs = get_companies() or []
FetchCompanies(r) ==
    /\ bld.pc = "companies"
    /\ log' = Append(log, fetched("get_companies", None, None, r))
    /\ bld' = IF r.exc # "none"
              THEN raises(bld, r.exc)
              ELSE [bld EXCEPT !.cs = or(_items(r.val), ListV(<< >>)).lv, !.pc = "domains"]
    /\ UNCHANGED <<storeVars, fetchVars, normVars, clock>>

\* the first company of cs with str(cid) == str(company_id); 0 when none
find_company(cs, company_id) ==
    LET hits == {i \in 1..Len(cs) : str(company_cid(cs[i])) = str(company_id)} IN
      IF hits = {} THEN 0 ELSE CHOOSE i \in hits : \A j \in hits : i <= j

\* the id write_company_bundle is called with: the company's, and in
\* refresh_stale_bundles the one cut from the file name
write_id(b) == IF b.op = "refresh_stale_bundles" THEN b.wid ELSE b.cid

\* the lists are fetched: rebuild_company_bundle_for_id goes through cs up to
\* the call of build_company_bundle for the first match, or to `return
\* None`; the other rebuilds enter their loop
after_lists(b) ==
    IF b.op = "rebuild_company_bundle_for_id"
    THEN LET i == find_company(b.cs, b.arg) IN
           IF i = 0 THEN [b EXCEPT !.pc = "returned", !.ret = None]
           ELSE build_enter(b, b.cs[i], b.all_domains)
    ELSE [b EXCEPT !.pc = "loop", !.idx = 1]

\* all_domains = get_domains() or []
FetchDomains(r) ==
    /\ bld.pc = "domains"
    /\ log' = Append(log, fetched("get_domains", None, None, r))
    /\ bld' = IF r.exc # "none"
              THEN raises(bld, r.exc)
              ELSE after_lists([bld EXCEPT !.all_domains = or(_items(r.val), ListV(<< >>)).lv,
                                           !.todo = {n \in BundleNames : files[n] # NoFile}])
    /\ UNCHANGED <<storeVars, fetchVars, normVars, clock>>

\* write_company_bundle(cid, bundle): each write of the rebuilding process
\* is a writer of its own
RebuildWrite ==
    /\ bld.pc = "built"
    /\ bld.nw < Cardinality(Writers)
    /\ write_call(bld.nw + 1, write_id(bld), bld.ret)
    /\ bld' = [bld EXCEPT !.pc = "write", !.nw = @ + 1]
    /\ UNCHANGED <<rd, fetchVars, normVars, log, clock>>

\* write_company_bundle is over: return company_bundle_path(cid), or its error
RebuildReturn ==
    /\ bld.pc = "write"
    /\ bld.op = "rebuild_company_bundle_for_id"
    /\ wr[bld.nw].pc \in {"returned", "raised"}
    /\ bld' = IF wr[bld.nw].pc = "returned"
              THEN [bld EXCEPT !.pc = "returned",
                               !.ret = [t |-> "path", pv |-> company_bundle_path(bld.cid)]]
              ELSE raises(bld, wr[bld.nw].exc)
    /\ UNCHANGED <<storeVars, fetchVars, normVars, log, clock>>

(***************************************************************************)
(* build_all_company_bundles, api.rebuild_all_company_jsons,               *)
(* ensure_missing_bundles and refresh_stale_bundles.                       *)
(***************************************************************************)
\* build_all_company_bundles(), or rebuild_all_company_jsons() around it
BuildAllCall(op) ==
    /\ bld.pc = "idle"
    /\ bld' = [bld EXCEPT !.op = op, !.run = 1, !.before = directory, !.pc = "companies"]
    /\ UNCHANGED <<storeVars, fetchVars, normVars, log, clock>>

\* ensure_missing_bundles() up to its listing of the directory:
\* existing_ids holds name.split("_data.json")[0] of every bundle file
EnsureMissingCall ==
    /\ bld.pc = "idle"
    /\ bld' = [bld EXCEPT !.op = "ensure_missing_bundles", !.run = 1,
                          !.before = directory,
                          !.existing_ids = {n.stem : n \in {m \in BundleNames : files[m] # NoFile}},
                          !.pc = "companies"]
    /\ UNCHANGED <<storeVars, fetchVars, normVars, log, clock>>

\* refresh_stale_bundles(ttl_hours): cutoff = time.time() - ttl_hours * 3600,
\* the clock counting hours
RefreshStaleCall(ttl_hours) ==
    /\ bld.pc = "idle"
    /\ bld' = [bld EXCEPT !.op = "refresh_stale_bundles", !.run = 1,
                          !.arg = IntV(ttl_hours), !.before = directory,
                          !.cutoff = clock - ttl_hours, !.pc = "companies"]
    /\ UNCHANGED <<storeVars, fetchVars, normVars, log, clock>>

\* what the rebuild returns when its loop is over
loop_return(b) ==
    [b EXCEPT !.pc = "returned",
              !.ret = IF b.op = "build_all_company_bundles"
                      THEN ListV([i \in 1..Len(b.written) |->
                                    [t |-> "path", pv |-> b.written[i]]])
                      ELSE IntV(Len(b.written))]

\* one round of `for c in cs` up to the call of build_company_bundle: a
\* company with no cid is passed over, and in ensure_missing_bundles one
\* whose str(cid) is in existing_ids
LoopCompanies ==
    /\ bld.pc = "loop"
    /\ bld.op \in {"build_all_company_bundles", "rebuild_all_company_jsons",
                   "ensure_missing_bundles"}
    /\ bld' = IF bld.idx > Len(bld.cs) THEN loop_return(bld)
              ELSE LET c == bld.cs[bld.idx]
                       cid == company_cid(c)
                   IN IF cid = None THEN [bld EXCEPT !.idx = @ + 1]
                      ELSE IF bld.op = "ensure_missing_bundles" /\ str(cid) \in bld.existing_ids
                      THEN [bld EXCEPT !.idx = @ + 1]
                      ELSE build_enter(bld, c, bld.all_domains)
    /\ UNCHANGED <<storeVars, fetchVars, normVars, log, clock>>

\* by_id = {str(c.get("company_id") or c.get("id")): c for c in cs}, then
\* by_id.get(key): the last company of cs under the key
by_id_get(cs, key) ==
    LET hits == {i \in 1..Len(cs) : str(company_cid(cs[i])) = key} IN
      IF hits = {} THEN None ELSE cs[CHOOSE i \in hits : \A j \in hits : j <= i]

\* the loop of refresh_stale_bundles is over
LoopFilesEnd ==
    /\ bld.pc = "loop"
    /\ bld.op = "refresh_stale_bundles"
    /\ bld.todo = {}
    /\ bld' = loop_return(bld)
    /\ UNCHANGED <<storeVars, fetchVars, normVars, log, clock>>

\* one round of `for name in os.listdir(DATA_ROOT)`, in whatever order the
\* directory lists its names, up to the call of build_company_bundle: a
\* file is passed over when it is fresh and when by_id has no company for it
LoopFiles(name) ==
    /\ bld.pc = "loop"
    /\ bld.op = "refresh_stale_bundles"
    /\ name \in bld.todo
    /\ LET b == [bld EXCEPT !.todo = @ \ {name}]
           cid == name.stem
           m == IF files[name] # NoFile THEN mtime[files[name]] ELSE 0
           comp == by_id_get(bld.cs, cid)
       IN bld' = IF m >= bld.cutoff THEN b
                 ELSE IF ~truthy(comp) THEN b
                 ELSE build_enter([b EXCEPT !.wid = StrV(cid)], comp, bld.all_domains)
    /\ UNCHANGED <<storeVars, fetchVars, normVars, log, clock>>

\* write_company_bundle is over inside a loop: the path is noted (written
\* += 1, refreshed += 1) and the loop goes on
LoopWritten ==
    /\ bld.pc = "write"
    /\ bld.op # "rebuild_company_bundle_for_id"
    /\ wr[bld.nw].pc \in {"returned", "raised"}
    /\ bld' = IF wr[bld.nw].pc = "returned"
              THEN [bld EXCEPT !.pc = "loop", !.idx = @ + 1,
                               !.written = Append(@, company_bundle_path(write_id(bld)))]
              ELSE raises(bld, wr[bld.nw].exc)
    /\ UNCHANGED <<storeVars, fetchVars, normVars, log, clock>>

\* rebuild_company_bundle_for_id(company_id), to be called again
RebuildFirst(company_id) ==
    /\ bld.pc = "idle"
    /\ bld' = [bld EXCEPT !.op = "rebuild_company_bundle_for_id", !.arg = company_id,
                          !.run = 1, !.before = directory, !.pc = "companies"]
    /\ UNCHANGED <<storeVars, fetchVars, normVars, log, clock>>

\* rebuild_company_bundle_for_id(company_id) is called a second time, after
\* the first call stored a bundle
RebuildAgain ==
    /\ bld.pc = "returned"
    /\ bld.op = "rebuild_company_bundle_for_id"
    /\ bld.run = 1
    /\ bld.ret # None
    /\ bld' = [bld EXCEPT !.run = 2, !.before = directory,
                          !.first = json_load(content[files[company_bundle_path(bld.cid)]]).val,
                          !.mark = Len(log), !.ret = None, !.pc = "companies"]
    /\ UNCHANGED <<storeVars, fetchVars, normVars, log, clock>>

\* get_companies() and get_domains(): they raise, answer null, or answer the
\* list in the items envelope
CompaniesResults ==
    {Raised, Returned(None)}
    \cup {Returned(DictV([items |-> ListV(cs)])) : cs \in CompanyLists}

DomainsResults ==
    {Raised} \cup {Returned(DictV([items |-> ListV(ds)])) : ds \in DomainLists}

\* the builder on a healthy disk: the write of a rebuild runs to its end
NextBuild ==
    \/ \E company \in CompanyRecords, all_domains \in DomainLists :
          BuildCall(company, all_domains)
    \/ FetchRiskGrade
    \/ FetchCategoryGpa
    \/ FetchDomainScore
    \/ FetchFindings
    \/ \E company_id \in RebuildIds : RebuildCall(company_id)
    \/ \E r \in CompaniesResults : FetchCompanies(r)
    \/ \E r \in DomainsResults : FetchDomains(r)
    \/ RebuildWrite
    \/ DumpChunk(1)
    \/ Replace(1)
    \/ Finally(1)
    \/ RebuildReturn

SpecBuild == InitStore /\ [][NextBuild]_vars

\* the ttl_hours refresh_stale_bundles is called with
TtlHours == {1, 2}

\* the hour at which the rebuilds start
StartHour == 3

\* the hours at which the files of the cache directory were last written
FileTimes == {1, 2}

\* the cache directory before a rebuild: each company's bundle file is
\* absent, or was written by an earlier run at one of FileTimes
InitRebuild ==
    /\ \E present \in SUBSET CompanyIds :
       \E times \in [present -> FileTimes] :
          /\ files = [n \in Names |->
                        IF \E c \in present : n = company_bundle_path(c)
                        THEN InoOf(CHOOSE c \in present : n = company_bundle_path(c))
                        ELSE NoFile]
          /\ content = [i \in Inodes |->
                          IF IntV(i) \in present THEN json_dump(OldBundle) ELSE << >>]
          /\ mtime = [i \in Inodes |-> IF IntV(i) \in present THEN times[IntV(i)] ELSE 0]
          /\ given = IF present = {} THEN {} ELSE {OldBundle}
    /\ wr = [w \in Writers |-> IdleWriter]
    /\ rd = IdleReader
    /\ http = IdleHttp
    /\ ref = << >>
    /\ normed = << >>
    /\ rating_row = EmptyDict
    /\ rated = << >>
    /\ bld = IdleBuild
    /\ log = << >>
    /\ clock = StartHour

\* the rebuilds on a healthy disk, one process at a time
NextRebuild ==
    \/ \E op \in {"build_all_company_bundles", "rebuild_all_company_jsons"} :
          BuildAllCall(op)
    \/ EnsureMissingCall
    \/ \E ttl_hours \in TtlHours : RefreshStaleCall(ttl_hours)
    \/ \E company_id \in RebuildIds : RebuildFirst(company_id)
    \/ RebuildAgain
    \/ \E r \in CompaniesResults : FetchCompanies(r)
    \/ \E r \in DomainsResults : FetchDomains(r)
    \/ LoopCompanies
    \/ \E name \in BundleNames : LoopFiles(name)
    \/ LoopFilesEnd
    \/ FetchRiskGrade
    \/ FetchCategoryGpa
    \/ FetchDomainScore
    \/ FetchFindings
    \/ RebuildWrite
    \/ \E w \in Writers : DumpChunk(w)
    \/ \E w \in Writers : Replace(w)
    \/ \E w \in Writers : Finally(w)
    \/ LoopWritten
    \/ RebuildReturn

SpecRebuild == InitRebuild /\ [][NextRebuild]_vars


(***************************************************************************)
(* Claims about the builder.                                               *)
(***************************************************************************)
\* the fetches of the log made through fn that raised
FailedFetches(fn) == {i \in 1..Len(log) : log[i].fn = fn /\ log[i].exc # "none"}

\* the bundle build_company_bundle returned
built_bundle == bld.ret.dv

\* upstream answered the category-GPA fetch of the k-th category with
\* nothing: null, or an envelope of no item
answered_nothing(k) ==
    \E i \in 1..Len(log) :
       /\ log[i].fn = "get_category_gpa" /\ log[i].a2 = StrV(CATEGORY_NAMES[k])
       /\ log[i].val \in {None, DictV([items |-> ListV(<< >>)])}

\* the rows upstream answered for domain did and the k-th category, without
\* their Category key and their navigation links
response_rows(did, k) ==
    CASE k = 5 -> << >>
      [] k = 6 -> << DictV([domain |-> did, finding_score |-> IntV(k),
                            ref |-> DictV([id |-> IntV(7)])]) >>
      [] OTHER -> << DictV([domain |-> did, finding_score |-> IntV(k)]) >>

\* the row upstream answered the category-GPA fetch of the k-th category
\* with: the answer, or the first item of its envelope; the empty object
\* when the fetch failed or answered no row
upstream_row(k) ==
    LET hits == {i \in 1..Len(log) :
                   /\ log[i].fn = "get_category_gpa" /\ log[i].exc = "none"
                   /\ log[i].a2 = StrV(CATEGORY_NAMES[k])}
    IN IF hits = {} THEN EmptyDict
       ELSE LET payload == _items(log[CHOOSE i \in hits : TRUE].val)
                first == IF payload.t = "list" /\ payload.lv # << >> THEN payload.lv[1]
                         ELSE payload
            IN IF first.t = "dict" THEN first ELSE EmptyDict

\* the value a row supplies for a field: that of the first of the field's
\* keys under which the row has a value, null when it has none
supplied(row, keys) ==
    LET present == {j \in 1..Len(keys) : get(row, keys[j]) # None} IN
      IF present = {} THEN None
      ELSE get(row, keys[CHOOSE j \in present : \A h \in present : j <= h])

\* the number of a supplied value: its float, null when there is no value
\* or the value is not convertible
number_of(x) ==
    IF x # None /\ float(x).exc = "none" THEN float(x).val ELSE None

\* C3: when the category-GPA fetch of a category fails, build does not raise:
\* it returns a bundle whose record for that category has null category_gpa
\* and category_score, every other category's record holding the numbers of
\* its own response.
C3_CategoryFetchFailureAbsorbed ==
    \A i \in FailedFetches("get_category_gpa") :
       /\ bld.pc # "raised"
       /\ (bld.op = "build" /\ bld.pc = "returned")
            => \A k \in 1..Len(CATEGORY_NAMES) :
                 LET rec == built_bundle["categories"].lv[k].dv IN
                   IF StrV(CATEGORY_NAMES[k]) = log[i].a2 \/ answered_nothing(k)
                   THEN rec["category_gpa"] = None /\ rec["category_score"] = None
                   ELSE /\ rec["category_gpa"] =
                             number_of(supplied(upstream_row(k), <<"category_gpa", "gpa", "value">>))
                        /\ rec["category_score"] =
                             number_of(supplied(upstream_row(k), <<"category_score", "score">>))

\* C4: when the risk-grade fetch fails, build still returns a bundle, and the
\* bundle's risk_grade is the empty object.
C4_RiskGradeFailureAbsorbed ==
    FailedFetches("get_company_risk_grade") # {}
      => /\ bld.pc # "raised"
         /\ (bld.op = "build" /\ bld.pc = "returned")
              => built_bundle["risk_grade"] = EmptyDict

\* C5: when the findings fetch of one (domain, category) pair fails, build
\* does not raise: the pair's finding list is empty and every other pair
\* holds the rows of its own response.
C5_FindingsFailureAbsorbed ==
    \A i \in FailedFetches("get_findings_by_category") :
       /\ bld.pc # "raised"
       /\ (bld.op = "build" /\ bld.pc = "returned")
            => \A j \in 1..Len(built_bundle["domains"].lv) :
                 \A k \in 1..Len(CATEGORY_NAMES) :
                    LET dom == built_bundle["domains"].lv[j].dv
                        rows == dom["findings_by_category"].dv[CATEGORY_NAMES[k]].lv
                    IN IF dom["domain_id"] = log[i].a1 /\ StrV(CATEGORY_NAMES[k]) = log[i].a2
                       THEN rows = << >>
                       ELSE rows = response_rows(dom["domain_id"], k)

\* the identifier a company record carries: under company_id, else under id
record_id(company) ==
    IF get(company, "company_id") # None THEN get(company, "company_id")
    ELSE get(company, "id")

\* C6: build fails with the missing-identifier error exactly when the record
\* carries no identifier under company_id or id; when it carries one, build
\* goes on and the bundle's company_id is that identifier, company_id taking
\* precedence over id.
C6_MissingIdentifierExactly ==
    (bld.op = "build" /\ bld.pc # "idle")
      => /\ (bld.pc = "raised" /\ bld.exc = "ValueError") <=> (record_id(bld.company) = None)
         /\ bld.pc = "returned" => built_bundle["company_id"] = record_id(bld.company)

\* the live company that rebuild_company_bundle_for_id(company_id) is asked
\* for: the first whose identifier has the string form of company_id
live_match(cs, company_id) ==
    {i \in 1..Len(cs) :
        record_id(cs[i]) # None /\ str(record_id(cs[i])) = str(company_id)}

\* C10: once the live lists are fetched, rebuild_one(company_id) returns null
\* and writes nothing when no live company has the id; when one has, it
\* writes exactly one bundle, that company's, and returns its path.
C10_RebuildOneWritesItsCompany ==
    (/\ bld.op = "rebuild_company_bundle_for_id"
     /\ bld.pc \in {"returned", "raised"}
     /\ Len(log) >= 2 /\ log[1].exc = "none" /\ log[2].exc = "none")
      => IF live_match(bld.cs, bld.arg) = {}
         THEN /\ bld.pc = "returned" /\ bld.ret = None
              /\ wr[1].pc = "idle"
         ELSE LET c == bld.cs[CHOOSE i \in live_match(bld.cs, bld.arg) :
                                 \A j \in live_match(bld.cs, bld.arg) : i <= j]
              IN /\ bld.pc = "returned"
                 /\ bld.ret = [t |-> "path", pv |-> company_bundle_path(record_id(c))]
                 /\ wr[1].pc = "returned"
                 /\ wr[1].data.dv["company_id"] = record_id(c)
                 /\ stored_file(record_id(c)) = [present |-> TRUE, doc |-> json_dump(wr[1].data)]

\* build_company_bundle has returned a bundle (to its caller, or into the
\* rebuild that called it)
build_returned == bld.ret.t = "dict"

TransportKeys == {"href", "links", "link", "rel", "HREF", "Links", "Rel"}

RECURSIVE no_transport_key(_)
\* no mapping inside x, at any depth, has a transport key
no_transport_key(x) ==
    CASE x.t = "dict" ->
           /\ DOMAIN x.dv \cap TransportKeys = {}
           /\ \A k \in DOMAIN x.dv : no_transport_key(x.dv[k])
      [] x.t = "list" -> \A i \in 1..Len(x.lv) : no_transport_key(x.lv[i])
      [] OTHER -> TRUE

C17_NoCategoryKeyInFindingRows ==
    build_returned
      => \A j \in 1..Len(built_bundle["domains"].lv) :
           LET per_cat == built_bundle["domains"].lv[j].dv["findings_by_category"].dv IN
             /\ DOMAIN per_cat = {CATEGORY_NAMES[k] : k \in 1..6}
             /\ \A cat \in DOMAIN per_cat :
                  \A i \in 1..Len(per_cat[cat].lv) :
                     "Category" \notin DOMAIN per_cat[cat].lv[i].dv

C17_Witness ==
    /\ bld.pc = "built"
    /\ Len(built_bundle["domains"].lv) = 2
    /\ \A k \in {1, 2, 3, 4, 6} :
         Len(built_bundle["domains"].lv[1].dv["findings_by_category"].dv[CATEGORY_NAMES[k]].lv) = 1

\* the entries of all_domains that are the company's: those whose company
\* id, under the first of company_id, companyId and cid that has a value,
\* reads as the identifier the company record carries
domains_of(company, all_domains) ==
    SelectSeq(all_domains,
              LAMBDA d : str(supplied(d, <<"company_id", "companyId", "cid">>))
                           = str(record_id(company)))

\* C24: the domains of a bundle returned by build are, one for one and in the
\* order of all_domains, the entries of all_domains whose company id has the
\* string form of the company's id; no other entry is included.
C24_DomainsAreTheCompanys ==
    build_returned
      => LET mine == domains_of(bld.company, bld.all_domains)
             doms == built_bundle["domains"].lv
         IN /\ Len(doms) = Len(mine)
            /\ \A j \in 1..Len(doms) :
                 /\ doms[j].dv["domain_id"] = supplied(mine[j], <<"domain_id", "id", "domainId">>)
                 /\ doms[j].dv["domain_name"] =
                      supplied(mine[j], <<"domain_name", "domain", "name">>)

\* what get_findings_by_category answered for domain did and the k-th
\* category
findings_response(did, k) ==
    LET i == CHOOSE i \in 1..Len(log) :
                /\ log[i].fn = "get_findings_by_category"
                /\ log[i].a1 = did /\ log[i].a2 = StrV(CATEGORY_NAMES[k])
    IN _items(log[i].val)

\* the rows a response comes to: the mappings of a list, those of the list
\* under `findings`, the response itself when it is a non-empty mapping,
\* and no row otherwise
rows_of(resp) ==
    LET mappings(xs) == SelectSeq(xs, LAMBDA x : x.t = "dict") IN
      CASE resp.t = "list" -> mappings(resp.lv)
        [] resp.t = "dict" /\ "findings" \in DOMAIN resp.dv /\ resp.dv["findings"].t = "list"
             -> mappings(resp.dv["findings"].lv)
        [] resp.t = "dict" /\ DOMAIN resp.dv # {} -> <<resp>>
        [] OTHER -> << >>

\* a row as it is stored: without its Category and without transport keys
stored_row(r) ==
    _strip_transport(DictV([key \in DOMAIN r.dv \ {"Category"} |-> r.dv[key]]))

\* C25: for every domain of a bundle returned by build, findings_by_category
\* has exactly the six canonical category names as keys, each mapped to the
\* list of the rows of the response: the mappings of a list response, the
\* list wrapped under findings, a single non-empty object as one row, and no
\* row for an empty or scalar response.
C25_FindingRowsFollowResponseShape ==
    build_returned
      => \A j \in 1..Len(built_bundle["domains"].lv) :
           LET dom == built_bundle["domains"].lv[j].dv
               per_cat == dom["findings_by_category"].dv
           IN /\ DOMAIN per_cat = {CATEGORY_NAMES[k] : k \in 1..Len(CATEGORY_NAMES)}
              /\ \A k \in 1..Len(CATEGORY_NAMES) :
                   LET rows == rows_of(findings_response(dom["domain_id"], k)) IN
                     per_cat[CATEGORY_NAMES[k]] =
                       ListV([i \in 1..Len(rows) |-> stored_row(rows[i])])

\* a bundle of two domains whose findings came as a list in its envelope, a
\* findings wrapper, a single object, a list with a scalar in it, a scalar
\* and the empty object
C25_Witness ==
    /\ bld.op = "build" /\ bld.pc = "returned"
    /\ Len(built_bundle["domains"].lv) = 2
    /\ findings_response(IntV(1), 2).t = "dict"
    /\ findings_response(IntV(1), 3).t = "dict"
    /\ Len(findings_response(IntV(1), 4).lv) = 2
    /\ findings_response(IntV(1), 5).t = "str"
    /\ findings_response(IntV(3), 5) = EmptyDict

\* the fetch of the score of domain did, as logged
score_fetch(did) ==
    log[CHOOSE i \in 1..Len(log) : log[i].fn = "get_domain_score" /\ log[i].a1 = did]

\* C26: a failing domain-score fetch never makes build raise; the
\* domain_score of every domain of a returned bundle is null when the
\* domain's score fetch failed or answered nothing convertible, and else the
\* float of the answer (a number or a numeric string); the findings of every
\* domain are those of its own responses, whichever score fetch failed.
C26_DomainScoreFailsSoft ==
    /\ (bld.pc = "raised" /\ log # << >>) => log[Len(log)].fn # "get_domain_score"
    /\ build_returned
         => \A j \in 1..Len(built_bundle["domains"].lv) :
              LET dom == built_bundle["domains"].lv[j].dv
                  f == score_fetch(dom["domain_id"])
              IN /\ dom["domain_score"] =
                      IF f.exc # "none" THEN None ELSE number_of(f.val)
                 /\ \A k \in 1..Len(CATEGORY_NAMES) :
                      LET rows == rows_of(findings_response(dom["domain_id"], k)) IN
                        Len(dom["findings_by_category"].dv[CATEGORY_NAMES[k]].lv) = Len(rows)

\* a bundle of two domains: the score fetch of the first failed, the second
\* was answered a numeric string and stores its float
C26_Witness ==
    /\ bld.op = "build" /\ bld.pc = "returned"
    /\ Len(built_bundle["domains"].lv) = 2
    /\ score_fetch(IntV(1)).exc # "none"
    /\ score_fetch(IntV(3)).val = StrV("7")
    /\ built_bundle["domains"].lv[1].dv["domain_score"] = None
    /\ built_bundle["domains"].lv[2].dv["domain_score"] = FloatV(7)

\* the entries of all_domains whose company id reads as the id the bundle is
\* built under
matching_domains ==
    SelectSeq(bld.all_domains,
              LAMBDA d : str(supplied(d, <<"company_id", "companyId", "cid">>)) = str(bld.cid))

\* the i-th fetch of a build for company cid with the matching domains doms:
\* the risk grade, the six category GPAs, then per domain its score and its
\* six findings
fetch_in_order(i, cid, doms) ==
    IF i = 1 THEN [fn |-> "get_company_risk_grade", a1 |-> cid, a2 |-> None]
    ELSE IF i <= 7
    THEN [fn |-> "get_category_gpa", a1 |-> cid, a2 |-> StrV(CATEGORY_NAMES[i - 1])]
    ELSE LET d == doms[((i - 8) \div 7) + 1]
             did == supplied(d, <<"domain_id", "id", "domainId">>)
             k == (i - 8) % 7
         IN IF k = 0 THEN [fn |-> "get_domain_score", a1 |-> did, a2 |-> None]
            ELSE [fn |-> "get_findings_by_category", a1 |-> did,
                  a2 |-> StrV(CATEGORY_NAMES[k])]

\* C28: the fetches of a build are made one after the other in a fixed
\* order: the risk grade, the six category GPAs in canonical order, then for
\* each matching domain in list order its score and its six findings in
\* canonical order; a build that returns has made 7 + 7 * D fetches, D the
\* number of matching domains.
C28_FetchesInFixedOrder ==
    bld.op = "build"
      => /\ Len(log) <= 7 + 7 * Len(matching_domains)
         /\ \A i \in 1..Len(log) :
              [fn |-> log[i].fn, a1 |-> log[i].a1, a2 |-> log[i].a2]
                = fetch_in_order(i, bld.cid, matching_domains)
         /\ bld.pc = "returned" => Len(log) = 7 + 7 * Len(matching_domains)

\* a returned build of a company with two matching domains among three
C28_Witness ==
    /\ bld.op = "build" /\ bld.pc = "returned"
    /\ Len(bld.all_domains) = 3 /\ Len(matching_domains) = 2
    /\ Len(log) = 21

\* C23: in a bundle returned by build, the category_gpa and the
\* category_score of every category are the float of the value upstream
\* returned for the field when that value is convertible to a number, 0
\* included, and null only when upstream returned no value or one that is not
\* convertible; each field on its own.
C23_CategoryNumbersAreUpstreams ==
    build_returned
      => \A k \in 1..Len(CATEGORY_NAMES) :
           LET rec == built_bundle["categories"].lv[k].dv IN
             /\ rec["category_gpa"] =
                  number_of(supplied(upstream_row(k), <<"category_gpa", "gpa", "value">>))
             /\ rec["category_score"] =
                  number_of(supplied(upstream_row(k), <<"category_score", "score">>))

(***************************************************************************)
(* Claims about the rebuilds.                                              *)
(***************************************************************************)
\* the rebuild is over
finished == bld.pc \in {"returned", "raised"}

\* the company list and the domain list of the running call were fetched
lists_fetched ==
    /\ Len(log) >= bld.mark + 2
    /\ log[bld.mark + 1].exc = "none"
    /\ log[bld.mark + 2].exc = "none"

\* file n was in the cache directory when the rebuild was called, is now
existed_before(n) == n \in Names /\ bld.before.files[n] # NoFile

exists_now(n) == n \in Names /\ files[n] # NoFile

\* file n is as the rebuild found it: the same file, content and time
unchanged(n) ==
    /\ files[n] = bld.before.files[n]
    /\ files[n] # NoFile
         => /\ content[files[n]] = bld.before.content[files[n]]
            /\ mtime[files[n]] = bld.before.mtime[files[n]]

\* file n holds the bundle built for the company of identifier id
holds_bundle_of(n, id) ==
    /\ exists_now(n)
    /\ json_load(content[files[n]]).exc = "none"
    /\ json_load(content[files[n]]).val.dv["company_id"] = id

\* C13: rebuild_all fetches the company list once and the domain list once,
\* before any other fetch, then builds and writes one bundle per company of
\* the list and returns one path per company.
C13_RebuildAllOnePerCompany ==
    (bld.op = "build_all_company_bundles" /\ finished)
      => /\ Cardinality({i \in 1..Len(log) : log[i].fn = "get_companies"}) = 1
         /\ Cardinality({i \in 1..Len(log) : log[i].fn = "get_domains"}) <= 1
         /\ log[1].fn = "get_companies"
         /\ Len(log) >= 2 => log[2].fn = "get_domains"
         /\ lists_fetched
              => /\ bld.pc = "returned"
                 /\ Len(bld.ret.lv) = Len(bld.cs)
                 /\ \A i \in 1..Len(bld.cs) :
                      LET n == company_bundle_path(record_id(bld.cs[i])) IN
                        /\ bld.ret.lv[i] = [t |-> "path", pv |-> n]
                        /\ holds_bundle_of(n, record_id(bld.cs[i]))

\* C14: when the company-list or the domain-list fetch of a rebuild fails,
\* the rebuild ends in an error, not in a return value, and the cache
\* directory is as the rebuild found it.
C14_ListFetchFailureAborts ==
    (\E i \in (bld.mark + 1)..Len(log) :
        log[i].fn \in {"get_companies", "get_domains"} /\ log[i].exc # "none")
      => /\ bld.pc = "raised"
         /\ directory = bld.before

\* C11: rebuild_missing changes no cache file that was there when it was
\* called; once the lists are fetched it writes a bundle for each live
\* company that had none, and returns the number of cache files that were
\* not there before and are there after.
C11_RebuildMissingOnlyAddsFiles ==
    (bld.op = "ensure_missing_bundles" /\ finished)
      => /\ \A n \in BundleNames : existed_before(n) => unchanged(n)
         /\ lists_fetched
              => /\ bld.pc = "returned"
                 /\ \A i \in 1..Len(bld.cs) :
                      LET n == company_bundle_path(record_id(bld.cs[i])) IN
                        ~existed_before(n) => holds_bundle_of(n, record_id(bld.cs[i]))
                 /\ bld.ret = IntV(Cardinality({n \in BundleNames :
                                                  ~existed_before(n) /\ exists_now(n)}))

\* file n was rewritten by the rebuild
rewritten(n) == files[n] # bld.before.files[n]

\* file n was, at the call, older than the TTL the rebuild was called with
older_than_ttl(n) ==
    StartHour - bld.before.mtime[bld.before.files[n]] > bld.arg.iv

\* C12: once the lists are fetched, rebuild_stale(ttl) rewrites a cache file
\* if and only if the file is older than the TTL and its company id is in
\* the live company list; every other file is unchanged, and the count
\* returned is the number of files rewritten.
C12_RebuildStaleRewritesExactly ==
    (bld.op = "refresh_stale_bundles" /\ finished /\ lists_fetched)
      => /\ bld.pc = "returned"
         /\ \A n \in BundleNames :
              IF existed_before(n) /\ older_than_ttl(n) /\ live_match(bld.cs, StrV(n.stem)) # {}
              THEN rewritten(n) /\ json_load(content[files[n]]).exc = "none"
              ELSE unchanged(n)
         /\ bld.ret = IntV(Cardinality({n \in BundleNames : rewritten(n)}))

\* upstream answered the fetches of the second call as those of the first
same_responses == SubSeq(log, 1, bld.mark) = SubSeq(log, bld.mark + 1, Len(log))

\* the bundle now stored for the company of the rebuild
stored_bundle == json_load(content[files[company_bundle_path(bld.cid)]]).val

\* C18: two calls of rebuild_one(id) that upstream answers alike store
\* bundles with the same categories and the same domains, and with
\* different generated_at.
C18_RebuildTwiceSameContent ==
    (/\ bld.op = "rebuild_company_bundle_for_id" /\ bld.run = 2
     /\ bld.pc = "returned" /\ bld.ret # None
     /\ same_responses)
      => /\ stored_bundle.dv["categories"] = bld.first.dv["categories"]
         /\ stored_bundle.dv["domains"] = bld.first.dv["domains"]
         /\ stored_bundle.dv["generated_at"] # bld.first.dv["generated_at"]

\* two calls answered alike, for a company of two domains
C18_Witness ==
    /\ bld.op = "rebuild_company_bundle_for_id" /\ bld.run = 2
    /\ bld.pc = "returned" /\ bld.ret # None
    /\ same_responses
    /\ Len(stored_bundle.dv["domains"].lv) = 2
    /\ bld.first.dv["generated_at"] = IntV(StartHour)

\* the fetches of the running call made inside build_company_bundle that
\* raise out of it, and that failed
failed_build_fetches ==
    {i \in (bld.mark + 1)..Len(log) :
       /\ log[i].fn \in {"get_company_risk_grade", "get_category_gpa",
                         "get_findings_by_category"}
       /\ log[i].exc # "none"}

\* the files the running call has written so far
written_paths == {bld.written[i] : i \in 1..Len(bld.written)}

\* C29: in every rebuild a company's cache file is replaced only once its
\* build has returned; when a build raises, the rebuild ends there: the file
\* of that company is as the rebuild found it, the files written earlier in
\* the call hold their new bundles, and every other file is unchanged, no
\* later company being built or written.
C29_FileReplacedOnlyAfterBuild ==
    bld.pc # "idle"
      => /\ \A n \in BundleNames :
              rewritten(n)
                => \/ n \in written_paths
                   \/ /\ bld.pc \in {"write", "returned"}
                      /\ n = company_bundle_path(write_id(bld))
         /\ failed_build_fetches # {}
              => /\ failed_build_fetches = {Len(log)}
                 /\ finished
                 /\ bld.pc = "raised" \/ bld.op = "rebuild_all_company_jsons"
                 /\ unchanged(company_bundle_path(write_id(bld)))
                 /\ \A n \in written_paths :
                      rewritten(n) /\ json_load(content[files[n]]).exc = "none"
                 /\ \A n \in BundleNames \ written_paths : unchanged(n)

\* rebuild_all over two companies: the bundle of the first is written, the
\* build of the second raises
C29_Witness ==
    /\ bld.op = "build_all_company_bundles" /\ bld.pc = "raised"
    /\ failed_build_fetches # {}
    /\ Len(bld.written) = 1
    /\ bld.idx = 2
    /\ existed_before(company_bundle_path(write_id(bld)))

\* the rows of the list that the i-th fetch of the log answered with
fetched_rows(i) == or(_items(log[i].val), ListV(<< >>)).lv

\* a build of the running rebuild has been entered
build_entered == bld.pc \in {"risk", "cat", "dscore", "find", "built", "write"}

\* C30: build leaves its arguments as they were passed: throughout a rebuild
\* the company list and the shared domain list are the rows upstream
\* answered with, transport keys included, and the company being built is
\* one of those rows; so every bundle the call has written holds the
\* stripped company row and the domains that the domain list as fetched
\* gives for its company, whatever was built before it.
C30_BuildLeavesArguments ==
    (/\ bld.op \in {"build_all_company_bundles", "rebuild_all_company_jsons",
                    "ensure_missing_bundles", "refresh_stale_bundles",
                    "rebuild_company_bundle_for_id"}
     /\ bld.pc \notin {"idle", "companies", "domains"}
     /\ lists_fetched)
      => /\ bld.cs = fetched_rows(bld.mark + 1)
         /\ bld.all_domains = fetched_rows(bld.mark + 2)
         /\ build_entered
              => \E i \in 1..Len(fetched_rows(bld.mark + 1)) :
                    bld.company = fetched_rows(bld.mark + 1)[i]
         /\ \A n \in written_paths :
              LET bundle == json_load(content[files[n]]).val.dv
                  mine == domains_for_company(fetched_rows(bld.mark + 2),
                                              bundle["company_id"])
                  doms == bundle["domains"].lv
              IN /\ \E i \in 1..Len(fetched_rows(bld.mark + 1)) :
                       bundle["company"] = _strip_transport(fetched_rows(bld.mark + 1)[i])
                 /\ Len(doms) = Len(mine)
                 /\ \A j \in 1..Len(doms) :
                      /\ doms[j].dv["domain_id"] = domain_did(mine[j])
                      /\ doms[j].dv["domain_name"] = domain_dname(mine[j])

\* rebuild_all has written the bundle of a first company, which has a domain
\* with a transport key, and is building the second from the same lists,
\* which still hold the transport keys of the company and of the domain
C30_Witness ==
    /\ bld.op = "build_all_company_bundles"
    /\ Len(bld.written) = 1 /\ bld.idx = 2 /\ bld.pc = "built"
    /\ Len(bld.details) = 1
    /\ \E i \in 1..Len(bld.all_domains) : "links" \in DOMAIN bld.all_domains[i].dv
    /\ "links" \in DOMAIN bld.cs[1].dv
    /\ Len(json_load(content[files[bld.written[1]]]).val.dv["domains"].lv) = 2

=============================================================================
